---- MODULE Spec2Model ----
(***************************************************************************)
(* A model of aa-proxy-rs: the session supervisor (src/src/main.rs), the   *)
(* Bluetooth bootstrap (src/src/bluetooth.rs), the per-session I/O loop    *)
(* (src/src/io_uring.rs) and the framed proxy (src/src/mitm.rs).           *)
(*                                                                         *)
(* Three specifications share the module:                                  *)
(*   Spec       supervisor + Bluetooth bootstrap + io_loop session life    *)
(*   SpecProxy  one proxy session: readers, processors, queues, TLS        *)
(*   SpecCodec  the framing codec on byte streams                          *)
(***************************************************************************)
EXTENDS Integers, Sequences, FiniteSets, TLC

VARIABLES
  \* ---- supervisor, tokio_main (main.rs)
  sup_pc,        \* position of the supervisor loop
  stopped,       \* the `stopped` local of the bootstrap loop
  action,        \* config.action_requested
  \* ---- bluetooth_setup_connection (bluetooth.rs)
  bt_pc,         \* 0: no attempt running, else index into BtProgram
  attempt,       \* number of the current bootstrap attempt
  bt_log,        \* what the current attempt has done so far, in order
  bt_status,     \* payload read at stage 5 of the current attempt
  bt_result,     \* what the last finished attempt returned
  bt_connect,    \* the outbound connect task of the current attempt
  \* ---- the two Notify objects shared by main.rs and io_uring.rs
  tcp_start,     \* attempt whose notify_one left the permit, 0: no permit
  need_restart,  \* permit of need_restart
  \* ---- io_loop (io_uring.rs)
  io_pc,         \* position of io_loop
  sess,          \* number of the current session
  sess_from,     \* attempt whose tcp_start permit started the session
  running,       \* <<session, task>> pairs of tasks that can still run
  failed,        \* a task of the current session ended with an error
  tx_slot,       \* the injection handle: 0 absent, else the session
  sensor_slot,   \* the shared sensor channel: 0 absent, else the channel
  torn           \* teardown steps done for each ended session

VARIABLES
  \* ---- one proxy session (mitm.rs, io_uring.rs, ev.rs)
  mitm,          \* cfg.mitm as read at the start of the session
  ep_pos,        \* number of packets each endpoint has sent so far
  decoded,       \* packets each endpoint_reader has published, in order
  raw,           \* raw_in of each processor (rxr), fed by its reader
  cross,         \* cross_in of each processor (rx), fed by the peer and the admin
  ppc,           \* position of each processor
  hs_i,          \* the handshake loop counter `i` of each processor
  tls_in,        \* client_stream of each SslMemBuf: bytes the TLS engine has not read
  tls_progress,  \* handshake flights of the peer each TLS engine has processed
  tls_built,     \* ssl_builder has run in that processor
  ctx_sensor,    \* ModifyContext.sensor_channel of each processor, 0: None
  wlog,          \* frames written to each endpoint, with the task that wrote them
  injected,      \* number of battery packets the admin has injected
  hooked,        \* pkt_modify_hook has been invoked
  early,         \* an ENCRYPTED packet reached encrypt/decrypt/transmit before init finished
  sod,           \* cfg.stop_on_disconnect as read at the start of the session
  stop_by,       \* history: the hook invocations that stored Stop
  tls_errs       \* history: the TLS errors raised in the processors, and what followed

VARIABLES
  \* ---- one endpoint_reader on a byte stream (mitm.rs)
  c_pkts,        \* the packets the peer writes with Packet::transmit
  wire,          \* bytes of the stream the device has not returned yet
  rbuf,          \* the reader's buffer
  published,     \* packets the reader has sent to its queue, in order
  c_alive        \* the reader task has not returned an error

VARIABLES
  \* ---- transfer_monitor of one session, and the writers of the action slot
  m_pc,          \* position of the monitor: run, clear, or how it ended
  m_elapsed,     \* 100 ms sleeps since stall_check was taken
  usb_bytes,     \* usb_bytes_written, added to by the HU side processor
  tcp_bytes,     \* tcp_bytes_written, added to by the MD side processor
  stall_usb_last,\* stall_usb_bytes_last
  stall_tcp_last,\* stall_tcp_bytes_last
  m_prev,        \* history: the two counters at the previous stall check
  m_adv,         \* history: the counters written since the previous stall check
  m_check,       \* history: what the last stall check saw and did
  m_seen,        \* the `action` local of the monitor
  slot_rm,       \* history: the last action removed from the slot, and by whom
  admin_n        \* number of writes to the slot by the admin and the hook

supVars == <<sup_pc, stopped, action, bt_pc, attempt, bt_log, bt_status,
             bt_result, bt_connect, tcp_start, need_restart, io_pc, sess, sess_from,
             running, failed, tx_slot, sensor_slot, torn>>

proxyVars == <<mitm, ep_pos, decoded, raw, cross, ppc, hs_i, tls_in, tls_progress,
               tls_built, ctx_sensor, wlog, injected, hooked, early, sod, stop_by, tls_errs>>

codecVars == <<c_pkts, wire, rbuf, published, c_alive>>

monVars == <<m_pc, m_elapsed, usb_bytes, tcp_bytes, stall_usb_last, stall_tcp_last,
             m_prev, m_adv, m_check, m_seen, slot_rm, admin_n>>

VARIABLES
  u_pc,          \* 0: before init; 1..5: index into UsbProgram; 6: the call returned
  legacy,        \* UsbGadgetState.legacy
  fs_ok,         \* the configfs directory exists
  udc_default,   \* default/UDC holds the UDC name
  udc_accessory, \* accessory/UDC holds the UDC name
  permit,        \* accessory_started holds a permit
  u_try,         \* _try of the retry loop
  u_log,         \* history: the steps of the current call, with what each one wrote
  u_signalled,   \* history: a wait of the current call ended with the signal
  u_calls,       \* number of calls so far
  u_events       \* number of uevents so far

usbVars == <<u_pc, legacy, fs_ok, udc_default, udc_accessory, permit, u_try, u_log,
             u_signalled, u_calls, u_events>>

VARIABLES
  \* ---- one direction of a TLS session between two SslStream<SslMemBuf> (mitm.rs)
  t_wseq,        \* write sequence number of the encrypting engine
  t_rseq,        \* read sequence number of the decrypting engine
  t_server,      \* server_stream of the encrypting end
  t_client,      \* client_stream of the decrypting end
  t_flight,      \* packets on their way, in order
  t_sent,        \* history: the packets handed to encrypt_payload
  t_got,         \* history: the packets as decrypt_payload left them
  t_err          \* decrypt_payload has returned an error

tlsVars == <<t_wseq, t_rseq, t_server, t_client, t_flight, t_sent, t_got, t_err>>

VARIABLES
  \* ---- one ServiceDiscoveryResponse passing pkt_modify_hook (mitm.rs)
  sdr_cfg,       \* the configuration toggles the hook reads
  sdr_parsed,    \* the bytes parse as a ServiceDiscoveryResponse
  sdr_in,        \* msg.services as parsed
  sdr_out,       \* msg.services as written back to the packet
  sdr_ctx,       \* ctx.sensor_channel (0: None)
  sdr_slot,      \* the shared sensor_channel slot (0: None)
  sdr_iter,      \* iterations of the "disable tts sink" loop
  sdr_pc         \* "idle", "in", "hu" or "md"

sdrVars == <<sdr_cfg, sdr_parsed, sdr_in, sdr_out, sdr_ctx, sdr_slot, sdr_iter, sdr_pc>>

VARIABLES
  \* ---- the EV battery logger over the sessions of io_loop (io_uring.rs, ev.rs)
  e_pc,          \* position of io_loop: "idle", "top", "setup", "run" or "exited"
  e_sess,        \* number of the current session
  e_shared,      \* ev_battery_logger is Some in the shared configuration
  e_io,          \* ... in the copy io_loop took at the top of its loop
  e_px,          \* ... in the copy the processors took when they started
  e_queue,       \* the commands in the channel of the EV task, in order
  e_task,        \* the EV task: "recv", "grace" (the 2 s sleep) or "dead"
  e_child,       \* `child` of the EV task is Some
  e_proc,        \* the session that started the process now alive, 0: none
  e_signals,     \* history: the signals sent by the Stop in progress or last done
  e_admin        \* number of configuration changes so far

evVars == <<e_pc, e_sess, e_shared, e_io, e_px, e_queue, e_task, e_child, e_proc,
            e_signals, e_admin>>

VARIABLES
  \* ---- POST /battery against the sessions of io_loop (web.rs, io_uring.rs)
  b_pc,          \* io_loop: "idle", "top", "run", "aborted" or "tx_none"
  b_sess,        \* number of the current session
  b_tx,          \* the injection handle: 0 None, else the session of its queue
  b_sc,          \* the shared sensor channel: 0 None, else the session that set it
  b_lock_tx,     \* holder of the mutex of the handle: "free", "io" or "web"
  b_lock_sc,     \* holder of the mutex of the sensor channel: "free" or "web"
  b_web,         \* battery_handler: "idle", "has_sc" or "has_tx"
  b_ch,          \* `ch` of the handler
  b_txc,         \* the handle the handler cloned
  b_inj,         \* history: the packets the handler has sent, and when
  b_posts        \* number of requests so far

batVars == <<b_pc, b_sess, b_tx, b_sc, b_lock_tx, b_lock_sc, b_web, b_ch, b_txc,
             b_inj, b_posts>>

VARIABLES
  \* ---- the three read_message calls of one bootstrap (bluetooth.rs)
  m_stream,      \* the bytes the phone has sent and the proxy has not read
  m_read,        \* number of read_message calls that returned Ok
  m_result,      \* "idle", "none", "ok", "err_io" or "err_status"
  m_log          \* history: what each read_message call found and did

msgVars == <<m_stream, m_read, m_result, m_log>>

VARIABLES
  \* ---- the supervisor loop and io_loop over several sessions, wireless
  \* ---- or wired (main.rs, io_uring.rs)
  l_wired,       \* config.wired.is_some()
  l_sup,         \* position of the supervisor loop
  l_iter,        \* number of the supervisor's iteration
  l_attempt,     \* bootstrap attempts made so far
  l_stopped,     \* the `stopped` local of the bootstrap loop
  l_action,      \* config.action_requested
  l_tcp,         \* permit of tcp_start
  l_need,        \* permit of need_restart
  l_io,          \* position of io_loop
  l_sess,        \* number of the current session
  l_spawn_iter,  \* supervisor iteration during which the session was spawned
  l_mon_start,   \* what the slot held when the session's monitor started
  l_stop_sess    \* session during which the hook stored Stop, 0: never

lifeVars == <<l_wired, l_sup, l_iter, l_attempt, l_stopped, l_action, l_tcp, l_need,
              l_io, l_sess, l_spawn_iter, l_mon_start, l_stop_sess>>

VARIABLES
  \* ---- the two cross queues of a session in steady state (mitm.rs proxy)
  x_q,           \* per side: packets waiting in that side's cross queue (rx)
  x_pc,          \* per side: position of the processor in its loop
  x_handled,     \* per side: the hook reported handled in this iteration
  x_inj,         \* packets the battery handler has put into the MD queue
  x_wait,        \* per side: the senders waiting for room in that side's queue
  x_web          \* the battery handler: "idle", or "wait" in its send

crossVars == <<x_q, x_pc, x_handled, x_inj, x_wait, x_web>>

VARIABLES
  \* ---- UsbGadgetState with calls that can fail one by one, and the
  \* ---- origin of the accessory_started permit (usb_gadget.rs)
  g_legacy,      \* self.legacy
  g_order,       \* change_usb_order
  g_pc,          \* position of the supervisor in its iteration
  g_default,     \* default/UDC holds the UDC name
  g_accessory,   \* accessory/UDC holds the UDC name
  g_call,        \* number of the supervisor iteration
  g_try,         \* _try of the retry loop
  g_armed,       \* iteration whose enable(default) ran last, 0: none yet
  g_permit,      \* -1: no permit, else g_armed when the uevent stored it
  g_woken,       \* -1: no wait of this call got a permit, else its origin
  g_events,      \* uevents received so far
  g_errs         \* the calls of this iteration that returned an error

gadgetVars == <<g_legacy, g_order, g_pc, g_default, g_accessory, g_call, g_try,
                g_armed, g_permit, g_woken, g_events, g_errs>>

VARIABLES
  \* ---- one call of pkt_modify_hook, with the faults it can raise (mitm.rs)
  h_in,          \* the arguments: proxy type, packet, context, parse result
  h_out          \* the outcome: returned or not, fault, handled, payload

hookVars == <<h_in, h_out>>

VARIABLES
  \* ---- the length of one payload on its way through a session, from the
  \* ---- reader to Packet::transmit (mitm.rs)
  f_pc,          \* "read", "plain", "hooked", "cipher", "sent" or "dropped"
  f_enc,         \* the frame has the ENCRYPTED flag
  f_sdr,         \* the hook rewrites the message (ServiceDiscoveryResponse)
  f_wire,        \* payload_length of the frame that was read
  f_len,         \* pkt.payload.len() now
  f_field        \* the payload_length that transmit wrote, -1: none yet

frameVars == <<f_pc, f_enc, f_sdr, f_wire, f_len, f_field>>

\* the variables of the studies that follow the read_message study
lateVars == <<lifeVars, crossVars, gadgetVars, hookVars, frameVars>>

\* the variables of the studies that follow the USB gadget
restVars == <<tlsVars, sdrVars, evVars, batVars, msgVars, lateVars>>

vars == <<supVars, proxyVars, codecVars, monVars, usbVars, restVars>>

(***************************************************************************)
(* Bounds of the model.                                                    *)
(***************************************************************************)
MaxAttempts == 3
MaxSessions == 2
MaxPkts == 5
MaxPassPkts == 2
MaxCodecPkts == 2
MaxPayload == 2
MaxInject == 1
MaxBytes == 9
ReadTimeoutTicks == 2
MaxAdmin == 2

MaxCalls == 2

MaxSteady == 2

MaxTlsPkts == 2

MaxPlain == 3

\* largest plaintext of one TLS record (16384 in TLS)
MaxRecord == 2

\* services in one ServiceDiscoveryResponse
MaxServices == 3

\* sessions, queued commands and configuration changes of the logger study
MaxEvSessions == 2

MaxEvQueue == 2

MaxEvAdmin == 2

\* sessions and POST /battery requests of the battery study
MaxBatSessions == 2

MaxPosts == 2

\* messages the phone sends in one bootstrap of the read_message study
MaxPhoneMsgs == 3

\* packets an endpoint has sent before the traffic of SteadyMenu begins
SteadyBase == 10

MaxUevents == 2

(***************************************************************************)
(* Bluetooth bootstrap: message ids and the five-step dialogue.            *)
(***************************************************************************)
WifiStartRequest == 1
WifiInfoRequest == 2
WifiInfoResponse == 3
WifiConnectStatus == 6
WifiStartResponse == 7

\* bytes of a message header: two of length, two of id
HEADER_LEN == 4

\* message ids a phone may put in a header
MessageIds == {WifiInfoRequest, WifiConnectStatus, WifiStartResponse}

\* payloads a phone may send after a header ([08, 00] is success,
\* [08, FD, ...] is the failure the source quotes)
BtPayloads == { <<>>, <<8>>, <<8, 0>>, <<8, 253, 255>> }

\* bluetooth_setup_connection as straight-line code: the call of
\* power_up_and_wait_for_connection, the five stages, notify_one, shutdown
BtProgramSwapped ==
  << [op |-> "power_up", id |-> 0],
     [op |-> "send", id |-> WifiStartRequest],
     [op |-> "read", id |-> WifiInfoRequest],
     [op |-> "send", id |-> WifiInfoResponse],
     [op |-> "read", id |-> WifiStartResponse],
     [op |-> "notify", id |-> 0],
     [op |-> "read", id |-> WifiConnectStatus],
     [op |-> "shutdown", id |-> 0] >>

BtProgram ==
  << [op |-> "power_up", id |-> 0],
     [op |-> "send", id |-> WifiStartRequest],
     [op |-> "read", id |-> WifiInfoRequest],
     [op |-> "send", id |-> WifiInfoResponse],
     [op |-> "read", id |-> WifiStartResponse],
     [op |-> "read", id |-> WifiConnectStatus],
     [op |-> "notify", id |-> 0],
     [op |-> "shutdown", id |-> 0] >>

\* read_message: the only content-dependent failure. `id` is the id the
\* caller expects (not the one received), `payload` the bytes after the header
ReadMessageFails(id, payload) ==
  /\ Len(payload) > 0
  /\ id = WifiConnectStatus
  /\ Len(payload) >= 2
  /\ payload[2] # 0

(***************************************************************************)
(* Session tasks of io_loop.                                               *)
(***************************************************************************)
Tasks == {"reader_hu", "reader_md", "from_file", "from_stream", "monitor"}

Actions == {"Reconnect", "Reboot", "Stop"}

\* the five abort() calls of the teardown
AbortAllButMonitor(run, s) == {p \in run : p[1] # s \/ p[2] = "monitor"}

AbortAll(run, s) == {p \in run : p[1] # s}

(***************************************************************************)
(* Initial state: the process has started, nothing has run yet.            *)
(***************************************************************************)
SupInit ==
  /\ sup_pc = "usb_init"
  /\ stopped = FALSE
  /\ action = "None"
  /\ bt_pc = 0
  /\ attempt = 0
  /\ bt_log = <<>>
  /\ bt_status = <<>>
  /\ bt_result = "none"
  /\ bt_connect = "none"
  /\ tcp_start = 0
  /\ need_restart = FALSE
  /\ io_pc = "top"
  /\ sess = 0
  /\ sess_from = 0
  /\ running = {}
  /\ failed = FALSE
  /\ tx_slot = 0
  /\ sensor_slot = 0
  /\ torn = [s \in 1..(MaxSessions + 1) |-> {}]

btVars == <<bt_pc, attempt, bt_log, bt_status, bt_result, bt_connect>>
ioVars == <<io_pc, sess, sess_from, running, failed, tx_slot, sensor_slot, torn>>

(***************************************************************************)
(* The supervisor loop of tokio_main (wireless, no DHU).                   *)
(***************************************************************************)
\* a step of the supervisor, the bootstrap or io_loop leaves the proxy session alone
NoProxy == UNCHANGED <<proxyVars, codecVars, monVars, usbVars, restVars>>

\* usb.init(): an error is only logged
SupUsbInit ==
  /\ sup_pc = "usb_init"
  /\ sup_pc' = "bt_loop"
  /\ UNCHANGED <<stopped, action, btVars, tcp_start, need_restart, ioVars>>
  /\ NoProxy

\* top of the bootstrap loop: read the config, call bluetooth_setup_connection
SupBtCall ==
  /\ sup_pc = "bt_loop"
  /\ attempt < MaxAttempts
  /\ stopped' = (action = "Stop")
  /\ sup_pc' = "bt_run"
  /\ attempt' = attempt + 1
  /\ bt_pc' = 1
  /\ bt_log' = <<>>
  /\ bt_status' = <<>>
  /\ bt_result' = "none"
  /\ bt_connect' = "none"
  /\ UNCHANGED <<action, tcp_start, need_restart, ioVars>>
  /\ NoProxy

\* Ok(state): spawn bluetooth_stop, clear a Stop that was pending, break
SupBtOk ==
  /\ sup_pc = "bt_run"
  /\ bt_pc = 0
  /\ bt_result = "ok"
  /\ action' = IF stopped THEN "None" ELSE action
  /\ sup_pc' = "usb_enable"
  /\ UNCHANGED <<stopped, btVars, tcp_start, need_restart, ioVars>>
  /\ NoProxy

\* Err(e): log, sleep 1 s
SupBtErr ==
  /\ bt_connect' = "none"   \* abort_tasks: the attempt's connect task is gone
  /\ sup_pc = "bt_run"
  /\ bt_pc = 0
  /\ bt_result = "err"
  /\ sup_pc' = "bt_sleep"
  /\ UNCHANGED <<stopped, action, bt_pc, attempt, bt_log, bt_status, bt_result, tcp_start, need_restart, ioVars>>
  /\ NoProxy

\* the 1 s sleep is over: next iteration of the bootstrap loop
SupBtSleepDone ==
  /\ sup_pc = "bt_sleep"
  /\ sup_pc' = "bt_loop"
  /\ UNCHANGED <<stopped, action, btVars, tcp_start, need_restart, ioVars>>
  /\ NoProxy

\* enable_usb_if_present, then wait for bluetooth_stop
SupUsbEnable ==
  /\ bt_connect' = "none"   \* the attempt is over, its connect task aborted
  /\ sup_pc = "usb_enable"
  /\ sup_pc' = "wait_restart"
  /\ UNCHANGED <<stopped, action, bt_pc, attempt, bt_log, bt_status, bt_result, tcp_start, need_restart, ioVars>>
  /\ NoProxy

\* need_restart.notified().await
SupRestarted ==
  /\ sup_pc = "wait_restart"
  /\ need_restart
  /\ need_restart' = FALSE
  /\ sup_pc' = "restart_sleep"
  /\ UNCHANGED <<stopped, action, btVars, tcp_start, ioVars>>
  /\ NoProxy

\* the 1 s pause, then the top of the loop
SupLoop ==
  /\ sup_pc = "restart_sleep"
  /\ sup_pc' = "usb_init"
  /\ UNCHANGED <<stopped, action, btVars, tcp_start, need_restart, ioVars>>
  /\ NoProxy

(***************************************************************************)
(* bluetooth_setup_connection, one instruction of BtProgram per step.      *)
(***************************************************************************)
BtIns == BtProgram[bt_pc]

BtRunning == sup_pc = "bt_run" /\ bt_pc \in 1..Len(BtProgram)

BtAdvance ==
  IF bt_pc = Len(BtProgram)
    THEN bt_pc' = 0 /\ bt_result' = "ok"
    ELSE bt_pc' = bt_pc + 1 /\ bt_result' = bt_result

\* `if let Some(address) = connect { if !stopped { ... spawn ... } }`, and a
\* mutation that does not look at `stopped`
ConnectTaskAlways(connect, stop) ==
  IF ~connect THEN "none" ELSE "spawned"

ConnectTask(connect, stop) ==
  IF ~connect THEN "none" ELSE IF stop THEN "suppressed" ELSE "spawned"

\* power_up_and_wait_for_connection: the connect task is spawned or not,
\* then handle_aa.next() and req.accept() returned a stream
BtPowerUp ==
  /\ BtRunning
  /\ BtIns.op = "power_up"
  /\ BtAdvance
  /\ \E connect \in BOOLEAN : bt_connect' = ConnectTask(connect, stopped)
  /\ UNCHANGED <<sup_pc, stopped, action, attempt, bt_log, bt_status,
                 tcp_start, need_restart, ioVars>>
  /\ NoProxy

\* send_message wrote the frame
BtSend ==
  /\ BtRunning
  /\ BtIns.op = "send"
  /\ bt_log' = Append(bt_log, [ev |-> "send", id |-> BtIns.id])
  /\ BtAdvance
  /\ UNCHANGED <<sup_pc, stopped, action, attempt, bt_status, bt_connect,
                 tcp_start, need_restart, ioVars>>
  /\ NoProxy

\* read_message read a header with any id and a payload
BtRead ==
  /\ BtRunning
  /\ BtIns.op = "read"
  /\ \E got \in MessageIds, payload \in BtPayloads :
       /\ bt_log' = Append(bt_log, [ev |-> "read", id |-> BtIns.id])
       /\ bt_status' = IF BtIns.id = WifiConnectStatus THEN payload ELSE bt_status
       /\ IF ReadMessageFails(BtIns.id, payload)
            THEN bt_pc' = 0 /\ bt_result' = "err"
            ELSE BtAdvance
  /\ UNCHANGED <<sup_pc, stopped, action, attempt, bt_connect, tcp_start, need_restart,
                 ioVars>>
  /\ NoProxy

\* tcp_start.notify_one(): a permit is stored (or the waiting io_loop woken)
BtNotify ==
  /\ BtRunning
  /\ BtIns.op = "notify"
  /\ tcp_start' = attempt
  /\ bt_log' = Append(bt_log, [ev |-> "notify", id |-> 0])
  /\ BtAdvance
  /\ UNCHANGED <<sup_pc, stopped, action, attempt, bt_status, bt_connect, need_restart, ioVars>>
  /\ NoProxy

\* stream.shutdown() succeeded
BtShutdown ==
  /\ BtRunning
  /\ BtIns.op = "shutdown"
  /\ bt_log' = Append(bt_log, [ev |-> "shutdown", id |-> 0])
  /\ BtAdvance
  /\ UNCHANGED <<sup_pc, stopped, action, attempt, bt_status, bt_connect,
                 tcp_start, need_restart, ioVars>>
  /\ NoProxy

\* any fallible call (accept timeout, stream write, read_exact, shutdown)
\* returned an error, which `?` propagates
BtIoError ==
  /\ BtRunning
  /\ BtIns.op # "notify"
  /\ bt_pc' = 0
  /\ bt_result' = "err"
  /\ UNCHANGED <<sup_pc, stopped, action, attempt, bt_log, bt_status, bt_connect,
                 tcp_start, need_restart, ioVars>>
  /\ NoProxy

(***************************************************************************)
(* io_loop (wireless, no DHU).                                             *)
(***************************************************************************)
\* reload the config, bind the listener, tcp_start.notified().await
IoWaitTcpStart ==
  /\ io_pc = "top"
  /\ sess < MaxSessions
  /\ tcp_start # 0
  /\ sess_from' = tcp_start
  /\ tcp_start' = 0
  /\ io_pc' = "accept"
  /\ UNCHANGED <<sup_pc, stopped, action, btVars, need_restart, sess, running,
                 failed, tx_slot, sensor_slot, torn>>
  /\ NoProxy

\* tcp_wait_for_connection and the open of /dev/usb_accessory succeeded:
\* set the injection handle if cfg.mitm && cfg.ev, spawn the five tasks
IoSpawn ==
  /\ io_pc = "accept"
  /\ sess' = sess + 1
  /\ \E inject \in BOOLEAN : tx_slot' = IF inject THEN sess + 1 ELSE tx_slot
  /\ running' = running \cup {<<sess + 1, t>> : t \in Tasks}
  /\ failed' = FALSE
  /\ io_pc' = "join"
  /\ UNCHANGED <<sup_pc, stopped, action, btVars, tcp_start, need_restart,
                 sess_from, sensor_slot, torn>>
  /\ NoProxy

\* the accept timed out or the open failed: notify the supervisor, continue
IoConnectFailed ==
  /\ io_pc = "accept"
  /\ need_restart' = TRUE
  /\ io_pc' = "top"
  /\ UNCHANGED <<sup_pc, stopped, action, btVars, tcp_start, sess, sess_from,
                 running, failed, tx_slot, sensor_slot, torn>>
  /\ NoProxy

\* a task of the session returns an error
TaskFails ==
  /\ \E t \in Tasks :
       /\ <<sess, t>> \in running
       /\ running' = running \ {<<sess, t>>}
       /\ failed' = TRUE
  /\ UNCHANGED <<sup_pc, stopped, action, btVars, tcp_start, need_restart,
                 io_pc, sess, sess_from, tx_slot, sensor_slot, torn>>
  /\ NoProxy

\* the HeadUnit processor saw a ServiceDiscoveryResponse with a sensor service
HuProcSetsSensor ==
  /\ <<sess, "from_file">> \in running
  /\ sensor_slot = 0
  /\ sensor_slot' = 1
  /\ UNCHANGED <<sup_pc, stopped, action, btVars, tcp_start, need_restart,
                 io_pc, sess, sess_from, running, failed, tx_slot, torn>>
  /\ NoProxy

\* try_join! returned the error; the five abort() calls
IoAbort ==
  /\ io_pc = "join"
  /\ failed
  /\ running' = AbortAll(running, sess)
  /\ torn' = [torn EXCEPT ![sess] = @ \cup {"aborted"}]
  /\ io_pc' = "reset"
  /\ UNCHANGED <<sup_pc, stopped, action, btVars, tcp_start, need_restart,
                 sess, sess_from, failed, tx_slot, sensor_slot>>
  /\ NoProxy

\* *tx_lock = None; *sc_lock = None
IoReset ==
  /\ io_pc = "reset"
  /\ tx_slot' = 0
  /\ sensor_slot' = 0
  /\ torn' = [torn EXCEPT ![sess] = @ \cup {"tx_none", "sensor_none"}]
  /\ io_pc' = "ev_stop"
  /\ UNCHANGED <<sup_pc, stopped, action, btVars, tcp_start, need_restart,
                 sess, sess_from, running, failed>>
  /\ NoProxy

\* no logger is configured, or ev_tx.send(Stop) succeeded
IoEvStop ==
  /\ io_pc = "ev_stop"
  /\ io_pc' = "notify"
  /\ UNCHANGED <<sup_pc, stopped, action, btVars, tcp_start, need_restart,
                 sess, sess_from, running, failed, tx_slot, sensor_slot, torn>>
  /\ NoProxy

\* ev_tx.send(Stop) failed (the EV task is gone): `?` ends io_loop
IoEvStopFails ==
  /\ io_pc = "ev_stop"
  /\ io_pc' = "exited"
  /\ UNCHANGED <<sup_pc, stopped, action, btVars, tcp_start, need_restart,
                 sess, sess_from, running, failed, tx_slot, sensor_slot, torn>>
  /\ NoProxy

\* need_restart.notify_one(), next iteration
IoNotifyRestart ==
  /\ io_pc = "notify"
  /\ need_restart' = TRUE
  /\ torn' = [torn EXCEPT ![sess] = @ \cup {"need_restart"}]
  /\ io_pc' = "top"
  /\ UNCHANGED <<sup_pc, stopped, action, btVars, tcp_start, sess, sess_from,
                 running, failed, tx_slot, sensor_slot>>
  /\ NoProxy

(***************************************************************************)
(* A Stop is stored in the action slot: by the hook on a ByeByeRequest     *)
(* with USER_SELECTION (stop_on_disconnect), or by a stored configuration. *)
(***************************************************************************)
StopRequested ==
  /\ action = "None"
  /\ action' = "Stop"
  /\ UNCHANGED <<sup_pc, stopped, btVars, tcp_start, need_restart, ioVars>>
  /\ NoProxy

(***************************************************************************)
(* One proxy session: packets, frames, queues, the TLS engines, the hook.  *)
(***************************************************************************)
Sides == {"HU", "MD"}

Peer(e) == IF e = "HU" THEN "MD" ELSE "HU"

HEADER_LENGTH == 4
FRAME_TYPE_FIRST == 1
FRAME_TYPE_LAST == 2
FRAME_TYPE_MASK == 3
ENCRYPTED == 8

\* mpsc::channel(10) of the four queues
QueueCap == 10

\* STEPS of the two handshake loops
HuSteps == 2
MdSteps == 3

\* message ids (first two payload bytes, big endian)
MESSAGE_ENCAPSULATED_SSL == 3
MESSAGE_SERVICE_DISCOVERY_RESPONSE == 6
SENSOR_MESSAGE_REQUEST == 32769
SENSOR_MESSAGE_RESPONSE == 32770
SENSOR_MESSAGE_BATCH == 32771
SENSOR_VEHICLE_ENERGY_MODEL_DATA == 23

STATUS_SUCCESS == 0

MESSAGE_BYEBYE_REQUEST == 15

USER_SELECTION == 1

\* (flags & bit) == bit, for a one-bit mask
HasFlag(flags, bit) == (flags \div bit) % 2 = 1

\* u16::from_be_bytes(payload[0..=1])
MessageId(payload) == payload[1] * 256 + payload[2]

HiByte(id) == (id \div 256) % 256
LoByte(id) == id % 256

\* u32::to_be_bytes
BE32(n) == << (n \div 16777216) % 256, (n \div 65536) % 256, (n \div 256) % 256, n % 256 >>

\* Packet::transmit: the bytes of the frame. final_length is <<>> for None
\* and <<n>> for Some(n); src and seq are history fields (who produced the
\* packet, and its number in that producer's stream), via is the queue the
\* packet last went through
TransmitFrame(pkt) ==
  LET len == Len(pkt.payload) % 65536
  IN  << pkt.channel, pkt.flags, HiByte(len), LoByte(len) >>
      \o (IF pkt.final_length # <<>> THEN BE32(pkt.final_length[1]) ELSE <<>>)
      \o pkt.payload

\* tx.send(pkt) on an mpsc queue, and the mutation that jumps the queue
SendFront(q, pkt) == <<pkt>> \o q

Send(q, pkt) == Append(q, pkt)

\* TLS bytes are abstracted to tokens: a complete handshake flight, a
\* fragment of a flight (the rest is in a later packet), and the flight the
\* proxy's own engine produces
Tls == [flight |-> 22, fragment |-> 21, own |-> 20]

\* the record marker of application data encrypted for the session of side e
CipherTag(e) == IF e = "HU" THEN 201 ELSE 202

\* flights a full handshake needs from the peer
FlightsNeeded == 2

\* accept() / do_handshake(): the engine reads client_stream; every complete
\* flight advances the handshake, a fragment leaves it where it was (WANT_READ)
HandshakeAdvance(progress, inbuf) ==
  LET n == Cardinality({i \in 1..Len(inbuf) : inbuf[i] = Tls.flight})
  IN  IF progress + n > FlightsNeeded THEN FlightsNeeded ELSE progress + n

\* ssl_check_failure: the error codes that do not end the processor
BenignCodes == {"WANT_READ", "WANT_WRITE", "SYSCALL"}

SslCheckFailure(code) == IF code \in BenignCodes \cup {"none"} THEN "ok" ELSE "err"

\* history only: a TLS error raised in the processor of side e
TlsErr(e, op, code, exited) == [side |-> e, op |-> op, code |-> code, exited |-> exited]

\* ssl().is_init_finished()
IsInitFinished(e) == tls_progress[e] >= FlightsNeeded

\* ssl_decapsulate_write: what is appended to client_stream
Decapsulate(payload) ==
  IF MessageId(payload) = MESSAGE_ENCAPSULATED_SSL
    THEN SubSeq(payload, 3, Len(payload))
    ELSE <<>>

\* ssl_encapsulate: server_stream wrapped in a control packet
Encapsulate(out) ==
  [channel |-> 0, flags |-> FRAME_TYPE_FIRST + FRAME_TYPE_LAST, final_length |-> <<>>,
   payload |-> <<HiByte(MESSAGE_ENCAPSULATED_SSL), LoByte(MESSAGE_ENCAPSULATED_SSL)>> \o out,
   src |-> "PROXY", seq |-> 0, via |-> "own"]

\* ssl_write + read_to on an established session
Encrypt(e, payload) == <<CipherTag(e)>> \o payload

\* write_from + read_to_end on an established session: Ok iff the record
\* belongs to this session
DecryptOk(e, payload) == Len(payload) > 0 /\ payload[1] = CipherTag(e)

Decrypt(e, payload) == Tail(payload)

(***************************************************************************)
(* pkt_modify_hook with cfg.ev set and the other toggles off.  The body of *)
(* a ServiceDiscoveryResponse is abstracted to one byte: the id of its     *)
(* first service that has sensors (0: none); the body of a SensorRequest   *)
(* to its sensor type.  Result: handled, the packet, ctx.sensor_channel,   *)
(* and whether the shared sensor slot is written.                          *)
(***************************************************************************)
SensorReplyUnencrypted(ch) ==
  [channel |-> ch, flags |-> FRAME_TYPE_FIRST + FRAME_TYPE_LAST,
   final_length |-> <<>>,
   payload |-> <<HiByte(SENSOR_MESSAGE_RESPONSE), LoByte(SENSOR_MESSAGE_RESPONSE),
                 STATUS_SUCCESS>>,
   src |-> "REPLY", seq |-> 0, via |-> "own"]

SensorReply(ch) ==
  [channel |-> ch, flags |-> ENCRYPTED + FRAME_TYPE_FIRST + FRAME_TYPE_LAST,
   final_length |-> <<>>,
   payload |-> <<HiByte(SENSOR_MESSAGE_RESPONSE), LoByte(SENSOR_MESSAGE_RESPONSE),
                 STATUS_SUCCESS>>,
   src |-> "REPLY", seq |-> 0, via |-> "own"]

\* history only: the reply remembers the packet it has replaced
ReplyFor(pkt, reply) ==
  [reply EXCEPT !.src = CASE pkt.src = "HU" -> "REPLY_HU"
                          [] pkt.src = "MD" -> "REPLY_MD"
                          [] OTHER -> "REPLY",
                !.seq = pkt.seq]

\* `cfg.stop_on_disconnect && proxy_type == ProxyType::MobileDevice`, and a
\* mutation that does not look at the option
StopWantedAlways(ptype, so) == ptype = "MD"

StopWanted(ptype, so) == so /\ ptype = "MD"

\* reason of a ByeByeRequest body: msg.reason.unwrap_or_default()
ByeByeReason(payload) == IF Len(payload) >= 3 THEN payload[3] ELSE 0

PktModifyHookCfg(ptype, pkt, sensor, so) ==
  LET same == [handled |-> FALSE, pkt |-> pkt, sensor |-> sensor, store |-> FALSE,
               stop |-> FALSE]
  IN  IF Len(pkt.payload) < 2 THEN same
      ELSE IF sensor # 0 /\ sensor = pkt.channel
        THEN IF /\ MessageId(pkt.payload) = SENSOR_MESSAGE_REQUEST
                /\ Len(pkt.payload) >= 3
                /\ pkt.payload[3] = SENSOR_VEHICLE_ENERGY_MODEL_DATA
               THEN [handled |-> TRUE, pkt |-> ReplyFor(pkt, SensorReply(sensor)),
                     sensor |-> sensor, store |-> FALSE, stop |-> FALSE]
               ELSE same
      ELSE IF pkt.channel # 0 THEN same
      ELSE IF MessageId(pkt.payload) = MESSAGE_BYEBYE_REQUEST
        THEN [same EXCEPT !.stop = /\ StopWanted(ptype, so)
                                   /\ ByeByeReason(pkt.payload) = USER_SELECTION]
      ELSE IF /\ MessageId(pkt.payload) = MESSAGE_SERVICE_DISCOVERY_RESPONSE
              /\ ptype = "HU"
              /\ Len(pkt.payload) >= 3
              /\ pkt.payload[3] # 0
        THEN [handled |-> FALSE,
              pkt |-> [pkt EXCEPT !.payload = @ \o <<SENSOR_VEHICLE_ENERGY_MODEL_DATA>>],
              sensor |-> pkt.payload[3], store |-> TRUE, stop |-> FALSE]
      ELSE same

\* the hook as a processor calls it: cfg is the session's snapshot
PktModifyHook(ptype, pkt, sensor) == PktModifyHookCfg(ptype, pkt, sensor, sod)

(***************************************************************************)
(* What the two endpoints send.  In MITM mode an endpoint follows the      *)
(* protocol: a version packet, two encapsulated TLS packets (each a whole  *)
(* flight or a fragment of one), then encrypted data.  In passthrough mode *)
(* any frame may come.                                                     *)
(***************************************************************************)
SensorCh == 2

NewPkt(e, n, ch, fl, finlen, pl) ==
  [channel |-> ch, flags |-> fl, final_length |-> finlen, payload |-> pl,
   src |-> e, seq |-> n, via |-> "reader"]

Whole == FRAME_TYPE_FIRST + FRAME_TYPE_LAST

\* MITM mode: packet 1 is the version packet (request 0001 from the head
\* unit, response 0002 from the phone), packets 2 and 3 carry TLS (the
\* second flight may arrive as a fragment), then encrypted data
MitmMenu(e, n) ==
  IF n = 1
    THEN { NewPkt(e, n, 0, Whole, <<>>,
                  <<0, IF e = "HU" THEN 1 ELSE 2, 1>>) }
  ELSE IF n <= 3
    THEN { NewPkt(e, n, 0, Whole, <<>>, <<0, MESSAGE_ENCAPSULATED_SSL, t>>) :
             t \in IF n = 2 THEN {Tls.flight} ELSE {Tls.flight, Tls.fragment} }
  ELSE IF e = "HU"
    THEN { NewPkt(e, n, 0, ENCRYPTED + Whole, <<>>,
                  <<CipherTag(e), 0, MESSAGE_SERVICE_DISCOVERY_RESPONSE, SensorCh>>) :
             x \in IF n = 4 THEN {1} ELSE {} }
         \cup { NewPkt(e, n, 1, ENCRYPTED + Whole, <<>>, <<CipherTag(e), 128, 0, n>>) }
  ELSE   { NewPkt(e, n, SensorCh, ENCRYPTED + Whole, <<>>,
                  <<CipherTag(e), HiByte(SENSOR_MESSAGE_REQUEST),
                    LoByte(SENSOR_MESSAGE_REQUEST), SENSOR_VEHICLE_ENERGY_MODEL_DATA>>) :
             x \in IF n = 5 THEN {1} ELSE {} }
         \cup { NewPkt(e, n, 1, ENCRYPTED + Whole, <<>>, <<CipherTag(e), 128, 0, n>>) }

\* passthrough mode: a first fragment with its total length, or an
\* encrypted whole frame
PassMenu(e, n) ==
  { NewPkt(e, n, 1, FRAME_TYPE_FIRST, <<7>>, <<n>>),
    NewPkt(e, n, 0, ENCRYPTED + Whole, <<>>, <<CipherTag(e), n>>) }

\* an encrypted whole frame of endpoint e carrying message `id` with a
\* one-byte body
DataPkt(e, n, ch, id, body) ==
  NewPkt(e, n, ch, ENCRYPTED + Whole, <<>>, <<CipherTag(e), HiByte(id), LoByte(id), body>>)

\* traffic of an established session: packet SteadyBase + 1 of an endpoint is
\* a control message, packet SteadyBase + 2 a message on a service channel or
\* a record that is not of this TLS session,
\* any later one a request for the energy model
SteadyMenu(e, n) ==
  IF n = SteadyBase + 1
    THEN { DataPkt(e, n, 0, MESSAGE_BYEBYE_REQUEST, r) : r \in {USER_SELECTION, 2} }
         \cup { DataPkt(e, n, 0, MESSAGE_SERVICE_DISCOVERY_RESPONSE, SensorCh) }
  ELSE IF n = SteadyBase + 2
    THEN { DataPkt(e, n, SensorCh, SENSOR_MESSAGE_REQUEST, t) :
             t \in {SENSOR_VEHICLE_ENERGY_MODEL_DATA, 1} }
         \cup { DataPkt(e, n, 1, SENSOR_MESSAGE_REQUEST, SENSOR_VEHICLE_ENERGY_MODEL_DATA),
                DataPkt(e, n, SensorCh, SENSOR_MESSAGE_RESPONSE, STATUS_SUCCESS),
                NewPkt(e, n, 1, ENCRYPTED + Whole, <<>>, <<CipherTag(Peer(e)), 128, 0, n>>) }
  ELSE   { DataPkt(e, n, SensorCh, SENSOR_MESSAGE_REQUEST, SENSOR_VEHICLE_ENERGY_MODEL_DATA) }

Menu(e, n) ==
  IF ~mitm THEN PassMenu(e, n)
  ELSE IF n > SteadyBase THEN SteadyMenu(e, n)
  ELSE MitmMenu(e, n)

\* packets an endpoint sends in the session
MaxSent ==
  IF ~mitm THEN MaxPassPkts
  ELSE IF \E e \in Sides : ep_pos[e] >= SteadyBase THEN SteadyBase + MaxSteady
  ELSE MaxPkts

\* let passthrough = !cfg.mitm, and the mutation that never takes the branch
PassthroughNever(m) == FALSE

Passthrough(m) == ~m

ProcName(e) == IF e = "HU" THEN "proxy_hu" ELSE "proxy_md"

ToCross(pkt) == [pkt EXCEPT !.via = "cross_in"]

\* a write of pkt to endpoint e by task `by`
Written(log, e, by, pkt) ==
  [log EXCEPT ![e] = Append(@, [by |-> by, frame |-> TransmitFrame(pkt),
                                src |-> pkt.src, seq |-> pkt.seq, via |-> pkt.via])]

\* what a completed bootstrap attempt has logged
BtDoneLog ==
  [i \in 1..(Len(BtProgram) - 1) |-> [ev |-> BtProgram[i + 1].op, id |-> BtProgram[i + 1].id]]

\* the state of the rest of the program while the first session runs
SessionRunning ==
  /\ sup_pc = "wait_restart"
  /\ stopped = FALSE
  /\ action = "None"
  /\ bt_pc = 0
  /\ attempt = 1
  /\ bt_log = BtDoneLog
  /\ bt_status = <<8, 0>>
  /\ bt_result = "ok"
  /\ bt_connect = "none"
  /\ tcp_start = 0
  /\ need_restart = FALSE
  /\ io_pc = "join"
  /\ sess = 1
  /\ sess_from = 1
  /\ running = {<<1, t>> : t \in Tasks}
  /\ failed = FALSE
  /\ torn = [s \in 1..(MaxSessions + 1) |-> {}]

\* the monitor variables when a monitor starts: counters and locals are 0
MonIdle ==
  /\ m_pc = "run"
  /\ m_elapsed = 0
  /\ usb_bytes = 0
  /\ tcp_bytes = 0
  /\ stall_usb_last = 0
  /\ stall_tcp_last = 0
  /\ m_prev = <<0, 0>>
  /\ m_adv = {}
  /\ m_check = [n |-> 0, usb_same |-> FALSE, tcp_same |-> FALSE, both_adv |-> FALSE,
                none_adv |-> FALSE, failed |-> FALSE]
  /\ m_seen = "None"
  /\ slot_rm = <<"None", "nobody">>
  /\ admin_n = 0

\* the gadget variables when no gadget switch is under study
UsbIdle ==
  /\ u_pc = 0
  /\ legacy = FALSE
  /\ fs_ok = TRUE
  /\ udc_default = FALSE
  /\ udc_accessory = FALSE
  /\ permit = FALSE
  /\ u_try = 1
  /\ u_log = <<>>
  /\ u_signalled = FALSE
  /\ u_calls = 0
  /\ u_events = 0

\* the TLS buffers when no TLS direction is under study
TlsIdle ==
  /\ t_wseq = 0
  /\ t_rseq = 0
  /\ t_server = <<>>
  /\ t_client = <<>>
  /\ t_flight = <<>>
  /\ t_sent = <<>>
  /\ t_got = <<>>
  /\ t_err = FALSE

\* the configuration as Default for AppConfig leaves the toggles of the hook
DefaultToggles ==
  [disable_tts_sink |-> FALSE, disable_media_sink |-> FALSE, ev |-> FALSE,
   video_in_motion |-> FALSE, remove_tap_restriction |-> FALSE,
   remove_bluetooth |-> FALSE, remove_wifi |-> FALSE]

\* the rewriter variables when no ServiceDiscoveryResponse is under study
SdrIdle ==
  /\ sdr_cfg = DefaultToggles
  /\ sdr_parsed = FALSE
  /\ sdr_in = <<>>
  /\ sdr_out = <<>>
  /\ sdr_ctx = 0
  /\ sdr_slot = 0
  /\ sdr_iter = 0
  /\ sdr_pc = "idle"

\* the logger variables when the logger is not under study
EvIdle ==
  /\ e_pc = "idle"
  /\ e_sess = 0
  /\ e_shared = FALSE
  /\ e_io = FALSE
  /\ e_px = FALSE
  /\ e_queue = <<>>
  /\ e_task = "recv"
  /\ e_child = FALSE
  /\ e_proc = 0
  /\ e_signals = <<>>
  /\ e_admin = 0

\* the variables of the battery study when it is not under way
BatIdle ==
  /\ b_pc = "idle"
  /\ b_sess = 0
  /\ b_tx = 0
  /\ b_sc = 0
  /\ b_lock_tx = "free"
  /\ b_lock_sc = "free"
  /\ b_web = "idle"
  /\ b_ch = 0
  /\ b_txc = 0
  /\ b_inj = <<>>
  /\ b_posts = 0

\* the variables of the read_message study when it is not under way
MsgIdle ==
  /\ m_stream = <<>>
  /\ m_read = 0
  /\ m_result = "idle"
  /\ m_log = <<>>

\* the variables of the lifecycle study when it is not under way
LifeIdle ==
  /\ l_wired = FALSE
  /\ l_sup = "idle"
  /\ l_iter = 0
  /\ l_attempt = 0
  /\ l_stopped = FALSE
  /\ l_action = "None"
  /\ l_tcp = FALSE
  /\ l_need = FALSE
  /\ l_io = "idle"
  /\ l_sess = 0
  /\ l_spawn_iter = 0
  /\ l_mon_start = "None"
  /\ l_stop_sess = 0

\* the variables of the cross queue study when it is not under way
CrossIdle ==
  /\ x_q = <<>>
  /\ x_pc = <<>>
  /\ x_handled = <<>>
  /\ x_inj = 0
  /\ x_wait = <<>>
  /\ x_web = "idle"

\* the variables of the second gadget study when it is not under way
GadgetIdle ==
  /\ g_legacy = FALSE
  /\ g_order = FALSE
  /\ g_pc = "idle"
  /\ g_default = FALSE
  /\ g_accessory = FALSE
  /\ g_call = 0
  /\ g_try = 0
  /\ g_armed = 0
  /\ g_permit = -1
  /\ g_woken = -1
  /\ g_events = 0
  /\ g_errs = {}

\* the variables of the hook study when it is not under way
HookIdle ==
  /\ h_in = <<>>
  /\ h_out = <<>>

\* the variables of the payload length study when it is not under way
FrameIdle ==
  /\ f_pc = "idle"
  /\ f_enc = FALSE
  /\ f_sdr = FALSE
  /\ f_wire = 0
  /\ f_len = 0
  /\ f_field = -1

LateIdle == LifeIdle /\ CrossIdle /\ GadgetIdle /\ HookIdle /\ FrameIdle

RestIdle == TlsIdle /\ SdrIdle /\ EvIdle /\ BatIdle /\ MsgIdle /\ LateIdle

\* the codec variables when no stream is under study
CodecIdle ==
  /\ c_pkts = <<>>
  /\ wire = <<>>
  /\ rbuf = <<>>
  /\ published = <<>>
  /\ c_alive = TRUE

\* the proxy variables before any session
ProxyIdle ==
  /\ mitm = FALSE
  /\ ep_pos = [e \in Sides |-> 0]
  /\ decoded = [e \in Sides |-> <<>>]
  /\ raw = [e \in Sides |-> <<>>]
  /\ cross = [e \in Sides |-> <<>>]
  /\ ppc = [e \in Sides |-> "start"]
  /\ hs_i = [e \in Sides |-> 1]
  /\ tls_in = [e \in Sides |-> <<>>]
  /\ tls_progress = [e \in Sides |-> 0]
  /\ tls_built = [e \in Sides |-> FALSE]
  /\ ctx_sensor = [e \in Sides |-> 0]
  /\ wlog = [e \in Sides |-> <<>>]
  /\ injected = 0
  /\ hooked = FALSE
  /\ early = [e \in Sides |-> FALSE]
  /\ sod = FALSE
  /\ stop_by = {}
  /\ tls_errs = {}

\* io_loop has spawned the tasks of a session; cfg.mitm is either value and
\* the injection handle is set iff cfg.mitm (cfg.ev is set)
InitProxy ==
  /\ SessionRunning
  /\ CodecIdle
  /\ MonIdle
  /\ UsbIdle
  /\ RestIdle
  /\ mitm \in BOOLEAN
  /\ tx_slot = IF mitm THEN 1 ELSE 0
  /\ sensor_slot = 0
  /\ ep_pos = [e \in Sides |-> 0]
  /\ decoded = [e \in Sides |-> <<>>]
  /\ raw = [e \in Sides |-> <<>>]
  /\ cross = [e \in Sides |-> <<>>]
  /\ ppc = [e \in Sides |-> "start"]
  /\ hs_i = [e \in Sides |-> 1]
  /\ tls_in = [e \in Sides |-> <<>>]
  /\ tls_progress = [e \in Sides |-> 0]
  /\ tls_built = [e \in Sides |-> FALSE]
  /\ ctx_sensor = [e \in Sides |-> 0]
  /\ wlog = [e \in Sides |-> <<>>]
  /\ injected = 0
  /\ hooked = FALSE
  /\ early = [e \in Sides |-> FALSE]
  /\ sod = FALSE
  /\ stop_by = {}
  /\ tls_errs = {}

\* a step of the proxy session leaves the supervisor and io_loop alone
NoLifeButAction == UNCHANGED <<sup_pc, stopped, btVars, tcp_start, need_restart,
                               io_pc, sess, sess_from, running, failed, tx_slot, torn,
                               codecVars, monVars, usbVars, restVars>>

NoLife == NoLifeButAction /\ UNCHANGED action

(***************************************************************************)
(* endpoint_reader, at packet level: a decoded packet goes to raw_in.      *)
(***************************************************************************)
ReaderPublish(e) ==
  /\ ppc[e] # "dead"
  /\ ep_pos[e] < MaxSent
  /\ Len(raw[e]) < QueueCap
  /\ \E pkt \in Menu(e, ep_pos[e] + 1) :
       /\ raw' = [raw EXCEPT ![e] = Send(@, pkt)]
       /\ decoded' = [decoded EXCEPT ![e] = Append(@, pkt)]
  /\ ep_pos' = [ep_pos EXCEPT ![e] = @ + 1]
  /\ UNCHANGED <<mitm, sod, stop_by, tls_errs, cross, ppc, hs_i, tls_in, tls_progress, tls_built, ctx_sensor,
                 wlog, injected, hooked, early, sensor_slot>>
  /\ NoLife

(***************************************************************************)
(* proxy(): the start, and the passthrough loop.                           *)
(***************************************************************************)
\* the code after ssl_builder starts with the version exchange; the
\* mutation starts with the handshake
HandshakeFirst(e) == IF e = "HU" THEN "hs" ELSE "hs_send"

VersionFirst(e) == "v_recv"

\* read the config; in MITM mode build the TLS engine
ProcStart(e) ==
  /\ ppc[e] = "start"
  /\ IF Passthrough(mitm)
       THEN /\ ppc' = [ppc EXCEPT ![e] = "pt_cross"]
            /\ UNCHANGED tls_built
       ELSE /\ ppc' = [ppc EXCEPT ![e] = VersionFirst(e)]
            /\ tls_built' = [tls_built EXCEPT ![e] = TRUE]
  /\ UNCHANGED <<mitm, sod, stop_by, tls_errs, ep_pos, decoded, raw, cross, hs_i, tls_in, tls_progress,
                 ctx_sensor, wlog, injected, hooked, early, sensor_slot>>
  /\ NoLife

\* rx.try_recv() returned a packet: transmit it
PtCross(e) ==
  /\ ppc[e] = "pt_cross"
  /\ cross[e] # <<>>
  /\ wlog' = Written(wlog, e, ProcName(e), Head(cross[e]))
  /\ cross' = [cross EXCEPT ![e] = Tail(@)]
  /\ ppc' = [ppc EXCEPT ![e] = "pt_raw"]
  /\ UNCHANGED <<mitm, sod, stop_by, tls_errs, ep_pos, decoded, raw, hs_i, tls_in, tls_progress, tls_built,
                 ctx_sensor, injected, hooked, early, sensor_slot>>
  /\ NoLife

\* rxr.try_recv() returned a packet: tx.send it, then sleep 5 ms
PtRaw(e) ==
  /\ ppc[e] = "pt_raw"
  /\ raw[e] # <<>>
  /\ Len(cross[Peer(e)]) < QueueCap
  /\ cross' = [cross EXCEPT ![Peer(e)] = Send(@, ToCross(Head(raw[e])))]
  /\ raw' = [raw EXCEPT ![e] = Tail(@)]
  /\ ppc' = [ppc EXCEPT ![e] = "pt_cross"]
  /\ UNCHANGED <<mitm, sod, stop_by, tls_errs, ep_pos, decoded, hs_i, tls_in, tls_progress, tls_built,
                 ctx_sensor, wlog, injected, hooked, early, sensor_slot>>
  /\ NoLife

\* a try_recv() found its queue empty (both loops)
TryRecvEmpty(e) ==
  /\ \/ ppc[e] \in {"pt_cross", "cross"} /\ cross[e] = <<>>
     \/ ppc[e] \in {"pt_raw", "raw"} /\ raw[e] = <<>>
  /\ ppc' = [ppc EXCEPT ![e] = CASE @ = "pt_cross" -> "pt_raw"
                                 [] @ = "pt_raw" -> "pt_cross"
                                 [] @ = "cross" -> "raw"
                                 [] @ = "raw" -> "cross"]
  /\ UNCHANGED <<mitm, sod, stop_by, tls_errs, ep_pos, decoded, raw, cross, hs_i, tls_in, tls_progress,
                 tls_built, ctx_sensor, wlog, injected, hooked, early, sensor_slot>>
  /\ NoLife

\* a fallible call of the processor (ssl_builder, transmit, send) failed:
\* `?` ends the task
ProcIoError(e) ==
  /\ ppc[e] # "dead"
  /\ ppc' = [ppc EXCEPT ![e] = "dead"]
  /\ UNCHANGED <<mitm, sod, stop_by, tls_errs, ep_pos, decoded, raw, cross, hs_i, tls_in, tls_progress,
                 tls_built, ctx_sensor, wlog, injected, hooked, early, sensor_slot>>
  /\ NoLife

(***************************************************************************)
(* proxy(), MITM mode: version exchange and TLS handshake.                 *)
(***************************************************************************)
\* HU side: rxr.recv(), tx.send(pkt)
HuVersionRecv ==
  /\ ppc["HU"] = "v_recv"
  /\ raw["HU"] # <<>>
  /\ Len(cross["MD"]) < QueueCap
  /\ cross' = [cross EXCEPT !["MD"] = Send(@, ToCross(Head(raw["HU"])))]
  /\ raw' = [raw EXCEPT !["HU"] = Tail(@)]
  /\ ppc' = [ppc EXCEPT !["HU"] = "v_reply"]
  /\ UNCHANGED <<mitm, sod, stop_by, tls_errs, ep_pos, decoded, hs_i, tls_in, tls_progress, tls_built,
                 ctx_sensor, wlog, injected, hooked, early, sensor_slot>>
  /\ NoLife

\* HU side: rx.recv(), transmit
HuVersionReply ==
  /\ ppc["HU"] = "v_reply"
  /\ cross["HU"] # <<>>
  /\ wlog' = Written(wlog, "HU", ProcName("HU"), Head(cross["HU"]))
  /\ early' = [early EXCEPT !["HU"] = @ \/ HasFlag(Head(cross["HU"]).flags, ENCRYPTED)]
  /\ cross' = [cross EXCEPT !["HU"] = Tail(@)]
  /\ ppc' = [ppc EXCEPT !["HU"] = "hs"]
  /\ UNCHANGED <<mitm, sod, stop_by, tls_errs, ep_pos, decoded, raw, hs_i, tls_in, tls_progress, tls_built,
                 ctx_sensor, injected, hooked, sensor_slot>>
  /\ NoLife

\* HU side, one iteration of the handshake loop: rxr.recv(),
\* ssl_decapsulate_write, accept(), ssl_encapsulate, transmit.  A payload
\* shorter than two bytes makes the slice panic.
HuHandshake ==
  /\ ppc["HU"] = "hs"
  /\ raw["HU"] # <<>>
  /\ raw' = [raw EXCEPT !["HU"] = Tail(@)]
  /\ LET pkt == Head(raw["HU"])
     IN  IF Len(pkt.payload) < 2
           THEN /\ ppc' = [ppc EXCEPT !["HU"] = "dead"]
                /\ UNCHANGED <<hs_i, tls_in, tls_progress, wlog, tls_errs>>
           ELSE LET inbuf == tls_in["HU"] \o Decapsulate(pkt.payload)
                    prog == HandshakeAdvance(tls_progress["HU"], inbuf)
                    out == IF prog > tls_progress["HU"] THEN <<Tls.own>> ELSE <<>>
                    code == IF prog < FlightsNeeded THEN "WANT_READ" ELSE "none"
                    fatal == SslCheckFailure(code) = "err"
                IN  /\ tls_in' = [tls_in EXCEPT !["HU"] = <<>>]
                    /\ tls_progress' = [tls_progress EXCEPT !["HU"] = prog]
                    /\ tls_errs' = IF code = "none" THEN tls_errs
                                   ELSE tls_errs \cup {TlsErr("HU", "handshake", code, fatal)}
                    /\ IF fatal
                         THEN /\ ppc' = [ppc EXCEPT !["HU"] = "dead"]
                              /\ UNCHANGED <<hs_i, wlog>>
                         ELSE /\ wlog' = Written(wlog, "HU", ProcName("HU"), Encapsulate(out))
                              /\ hs_i' = [hs_i EXCEPT !["HU"] = @ + 1]
                              /\ ppc' = [ppc EXCEPT !["HU"] =
                                           IF hs_i["HU"] = HuSteps THEN "cross" ELSE "hs"]
  /\ UNCHANGED <<mitm, sod, stop_by, ep_pos, decoded, cross, tls_built, ctx_sensor, injected,
                 hooked, early, sensor_slot>>
  /\ NoLife

\* MD side: rx.recv(), transmit
MdVersionRecv ==
  /\ ppc["MD"] = "v_recv"
  /\ cross["MD"] # <<>>
  /\ wlog' = Written(wlog, "MD", ProcName("MD"), Head(cross["MD"]))
  /\ early' = [early EXCEPT !["MD"] = @ \/ HasFlag(Head(cross["MD"]).flags, ENCRYPTED)]
  /\ cross' = [cross EXCEPT !["MD"] = Tail(@)]
  /\ ppc' = [ppc EXCEPT !["MD"] = "v_reply"]
  /\ UNCHANGED <<mitm, sod, stop_by, tls_errs, ep_pos, decoded, raw, hs_i, tls_in, tls_progress, tls_built,
                 ctx_sensor, injected, hooked, sensor_slot>>
  /\ NoLife

\* MD side: rxr.recv(), tx.send(pkt)
MdVersionReply ==
  /\ ppc["MD"] = "v_reply"
  /\ raw["MD"] # <<>>
  /\ Len(cross["HU"]) < QueueCap
  /\ cross' = [cross EXCEPT !["HU"] = Send(@, ToCross(Head(raw["MD"])))]
  /\ raw' = [raw EXCEPT !["MD"] = Tail(@)]
  /\ ppc' = [ppc EXCEPT !["MD"] = "hs_send"]
  /\ UNCHANGED <<mitm, sod, stop_by, tls_errs, ep_pos, decoded, hs_i, tls_in, tls_progress, tls_built,
                 ctx_sensor, wlog, injected, hooked, early, sensor_slot>>
  /\ NoLife

\* MD side, first half of an iteration: do_handshake(); on the last
\* iteration break, else ssl_encapsulate and transmit
MdHandshakeSend ==
  /\ ppc["MD"] = "hs_send"
  /\ LET prog == HandshakeAdvance(tls_progress["MD"], tls_in["MD"])
         out == IF hs_i["MD"] = 1 \/ prog > tls_progress["MD"] THEN <<Tls.own>> ELSE <<>>
         code == IF prog < FlightsNeeded THEN "WANT_READ" ELSE "none"
         fatal == SslCheckFailure(code) = "err"
     IN  /\ tls_in' = [tls_in EXCEPT !["MD"] = <<>>]
         /\ tls_progress' = [tls_progress EXCEPT !["MD"] = prog]
         /\ tls_errs' = IF code = "none" THEN tls_errs
                        ELSE tls_errs \cup {TlsErr("MD", "handshake", code, fatal)}
         /\ IF fatal
              THEN /\ ppc' = [ppc EXCEPT !["MD"] = "dead"]
                   /\ UNCHANGED wlog
              ELSE IF hs_i["MD"] = MdSteps
              THEN /\ ppc' = [ppc EXCEPT !["MD"] = "cross"]
                   /\ UNCHANGED wlog
              ELSE /\ ppc' = [ppc EXCEPT !["MD"] = "hs_recv"]
                   /\ wlog' = Written(wlog, "MD", ProcName("MD"), Encapsulate(out))
  /\ UNCHANGED <<mitm, sod, stop_by, ep_pos, decoded, raw, cross, hs_i, tls_built, ctx_sensor,
                 injected, hooked, early, sensor_slot>>
  /\ NoLife

\* MD side, second half: rxr.recv(), ssl_decapsulate_write
MdHandshakeRecv ==
  /\ ppc["MD"] = "hs_recv"
  /\ raw["MD"] # <<>>
  /\ raw' = [raw EXCEPT !["MD"] = Tail(@)]
  /\ LET pkt == Head(raw["MD"])
     IN  IF Len(pkt.payload) < 2
           THEN /\ ppc' = [ppc EXCEPT !["MD"] = "dead"]
                /\ UNCHANGED <<hs_i, tls_in>>
           ELSE /\ tls_in' = [tls_in EXCEPT !["MD"] = @ \o Decapsulate(pkt.payload)]
                /\ hs_i' = [hs_i EXCEPT !["MD"] = @ + 1]
                /\ ppc' = [ppc EXCEPT !["MD"] = "hs_send"]
  /\ UNCHANGED <<mitm, sod, stop_by, tls_errs, ep_pos, decoded, cross, tls_progress, tls_built, ctx_sensor,
                 wlog, injected, hooked, early, sensor_slot>>
  /\ NoLife

(***************************************************************************)
(* proxy(), MITM mode: the main loop.                                      *)
(***************************************************************************)
\* history only: which processor stored Stop, for which packet
StopRecord(e, pkt) ==
  [ptype |-> e, src |-> pkt.src, via |-> pkt.via, reason |-> ByeByeReason(pkt.payload)]

\* rx.try_recv() returned a packet: hook; a handled packet's reply goes back
\* with tx.send, any other packet is encrypted and transmitted.  ssl_write
\* on a session whose handshake is not finished returns an error, which `?`
\* propagates.
ProcCross(e) ==
  /\ ppc[e] = "cross"
  /\ cross[e] # <<>>
  /\ LET h == PktModifyHook(e, Head(cross[e]), ctx_sensor[e])
         enc == HasFlag(h.pkt.flags, ENCRYPTED)
     IN  /\ hooked' = TRUE
         /\ action' = IF h.stop THEN "Stop" ELSE action
         /\ stop_by' = IF h.stop THEN stop_by \cup {StopRecord(e, Head(cross[e]))}
                                   ELSE stop_by
         /\ ctx_sensor' = [ctx_sensor EXCEPT ![e] = h.sensor]
         /\ sensor_slot' = IF h.store THEN h.sensor ELSE sensor_slot
         /\ IF h.handled
              THEN /\ Len(cross[Peer(e)]) < QueueCap
                   /\ cross' = [cross EXCEPT ![e] = Tail(@),
                                             ![Peer(e)] = Send(@, ToCross(h.pkt))]
                   /\ ppc' = [ppc EXCEPT ![e] = "raw"]
                   /\ UNCHANGED <<wlog, early, tls_errs>>
              ELSE /\ cross' = [cross EXCEPT ![e] = Tail(@)]
                   /\ early' = [early EXCEPT ![e] = @ \/ (enc /\ ~IsInitFinished(e))]
                   /\ IF enc /\ ~IsInitFinished(e)
                        THEN /\ ppc' = [ppc EXCEPT ![e] = "dead"]
                             /\ \E code \in {"WANT_READ", "SYSCALL"} :
                                  tls_errs' = tls_errs \cup {TlsErr(e, "encrypt", code, TRUE)}
                             /\ UNCHANGED wlog
                        ELSE /\ ppc' = [ppc EXCEPT ![e] = "raw"]
                             /\ UNCHANGED tls_errs
                             /\ wlog' = Written(wlog, e, ProcName(e),
                                          IF enc THEN [h.pkt EXCEPT !.payload = Encrypt(e, @)]
                                                 ELSE h.pkt)
  /\ UNCHANGED <<mitm, sod, ep_pos, decoded, raw, hs_i, tls_in, tls_progress, tls_built,
                 injected>>
  /\ NoLifeButAction

\* rxr.try_recv() returned a packet: decrypt; Ok: hook (its result is
\* dropped) and tx.send; Err: logged, the packet is dropped.  Then sleep 5 ms.
\* read_to_end turns WANT_READ, SYSCALL and ZERO_RETURN without an I/O error
\* into the end of the data, so an Err of decrypt_payload carries another code.
ProcRaw(e) ==
  /\ ppc[e] = "raw"
  /\ raw[e] # <<>>
  /\ LET pkt == Head(raw[e])
         enc == HasFlag(pkt.flags, ENCRYPTED)
         ok == ~enc \/ (IsInitFinished(e) /\ DecryptOk(e, pkt.payload))
         plain == IF enc /\ ok THEN [pkt EXCEPT !.payload = Decrypt(e, @)] ELSE pkt
         h == PktModifyHook(e, plain, ctx_sensor[e])
     IN  /\ early' = [early EXCEPT ![e] = @ \/ (enc /\ ~IsInitFinished(e))]
         /\ raw' = [raw EXCEPT ![e] = Tail(@)]
         /\ IF ok
              THEN /\ Len(cross[Peer(e)]) < QueueCap
                   /\ cross' = [cross EXCEPT ![Peer(e)] = Send(@, ToCross(h.pkt))]
                   /\ ctx_sensor' = [ctx_sensor EXCEPT ![e] = h.sensor]
                   /\ sensor_slot' = IF h.store THEN h.sensor ELSE sensor_slot
                   /\ hooked' = TRUE
                   /\ action' = IF h.stop THEN "Stop" ELSE action
                   /\ stop_by' = IF h.stop THEN stop_by \cup {StopRecord(e, plain)}
                                             ELSE stop_by
                   /\ UNCHANGED tls_errs
              ELSE /\ tls_errs' = tls_errs \cup {TlsErr(e, "decrypt", "SSL", FALSE)}
                   /\ UNCHANGED <<cross, ctx_sensor, sensor_slot, hooked, action, stop_by>>
  /\ ppc' = [ppc EXCEPT ![e] = "cross"]
  /\ UNCHANGED <<mitm, sod, ep_pos, decoded, hs_i, tls_in, tls_progress, tls_built,
                 wlog, injected>>
  /\ NoLifeButAction

(***************************************************************************)
(* battery_handler + send_ev_data (web.rs, ev.rs): with a sensor channel   *)
(* and an injection handle present, a SensorBatch packet is sent on the    *)
(* handle, a clone of the sender that feeds the MD side's cross_in.        *)
(***************************************************************************)
BatteryPkt(ch, n) ==
  [channel |-> ch, flags |-> ENCRYPTED + FRAME_TYPE_FIRST + FRAME_TYPE_LAST,
   final_length |-> <<>>,
   payload |-> <<HiByte(SENSOR_MESSAGE_BATCH), LoByte(SENSOR_MESSAGE_BATCH), n>>,
   src |-> "ADMIN", seq |-> n, via |-> "own"]

\* tx.send(pkt) of send_ev_data, and the mutation that writes to the phone
AdminSendDirect(pkt) ==
  /\ wlog' = Written(wlog, "MD", "admin", pkt)
  /\ cross' = cross

AdminSend(pkt) ==
  /\ Len(cross["MD"]) < QueueCap
  /\ cross' = [cross EXCEPT !["MD"] = Send(@, ToCross(pkt))]
  /\ wlog' = wlog

AdminBattery ==
  /\ sensor_slot # 0
  /\ tx_slot # 0
  /\ injected < MaxInject
  /\ AdminSend(BatteryPkt(sensor_slot, injected + 1))
  /\ injected' = injected + 1
  /\ UNCHANGED <<mitm, sod, stop_by, tls_errs, ep_pos, decoded, raw, ppc, hs_i, tls_in, tls_progress,
                 tls_built, ctx_sensor, hooked, early, sensor_slot>>
  /\ NoLife

ProxyNext ==
  \/ \E e \in Sides : ReaderPublish(e)
  \/ \E e \in Sides : ProcStart(e)
  \/ \E e \in Sides : PtCross(e)
  \/ \E e \in Sides : PtRaw(e)
  \/ \E e \in Sides : TryRecvEmpty(e)
  \/ \E e \in Sides : ProcIoError(e)
  \/ HuVersionRecv \/ HuVersionReply \/ HuHandshake
  \/ MdVersionRecv \/ MdVersionReply \/ MdHandshakeSend \/ MdHandshakeRecv
  \/ \E e \in Sides : ProcCross(e)
  \/ \E e \in Sides : ProcRaw(e)
  \/ AdminBattery

(***************************************************************************)
(* The framing codec: Packet::transmit on one side, endpoint_reader with   *)
(* read_input_data on the other, on a byte stream cut into chunks.         *)
(***************************************************************************)
\* read_input_data reads at most BUFFER_LEN bytes at a time
BUFFER_LEN == 16384

\* the inner loop of endpoint_reader on buffer buf, with `out` published so
\* far: decode frames while a complete one is buffered
RECURSIVE DecodeLoop(_, _)
DecodeLoop(buf, out) ==
  IF Len(buf) > HEADER_LENGTH
    THEN LET channel == buf[1]
             flags == buf[2]
             payload_size == buf[4] + buf[3] * 256
             first == Len(buf) > 8 /\ flags % (FRAME_TYPE_MASK + 1) = FRAME_TYPE_FIRST
             header_size == IF first THEN HEADER_LENGTH + 4 ELSE HEADER_LENGTH
             final_length ==
               IF first
                 THEN << buf[5] * 16777216 + buf[6] * 65536 + buf[7] * 256 + buf[8] >>
                 ELSE <<>>
             frame_size == header_size + payload_size
         IN  IF Len(buf) >= frame_size
               THEN DecodeLoop(SubSeq(buf, frame_size + 1, Len(buf)),
                               Append(out, [channel |-> channel, flags |-> flags,
                                            final_length |-> final_length,
                                            payload |-> SubSeq(buf, header_size + 1,
                                                               frame_size)]))
               ELSE [buf |-> buf, out |-> out]
    ELSE [buf |-> buf, out |-> out]

\* the bytes a sequence of transmit calls puts on the stream
RECURSIVE Stream(_)
Stream(pkts) == IF pkts = <<>> THEN <<>> ELSE TransmitFrame(Head(pkts)) \o Stream(Tail(pkts))

\* payloads of 0..MaxPayload bytes
CodecPayloads == { SubSeq(<<170, 187, 204, 221>>, 1, n) : n \in 0..MaxPayload }

\* well-formed packets: whole frames, and first fragments with a total length
CodecPackets ==
  { [channel |-> 1, flags |-> Whole, final_length |-> <<>>, payload |-> pl] :
      pl \in CodecPayloads }
  \cup
  { [channel |-> 1, flags |-> FRAME_TYPE_FIRST, final_length |-> <<7>>, payload |-> pl] :
      pl \in CodecPayloads }

CodecSeqs == UNION { [1..n -> CodecPackets] : n \in 1..MaxCodecPkts }

InitCodec ==
  /\ SupInit
  /\ ProxyIdle
  /\ MonIdle
  /\ UsbIdle
  /\ RestIdle
  /\ c_pkts \in CodecSeqs
  /\ wire = Stream(c_pkts)
  /\ rbuf = <<>>
  /\ published = <<>>
  /\ c_alive = TRUE

\* one iteration of the outer loop: read_input_data appends the n bytes the
\* device returned, then the inner loop runs until no complete frame is left
ReadChunk ==
  /\ c_alive
  /\ wire # <<>>
  /\ \E n \in 1..Len(wire) :
       /\ n <= BUFFER_LEN
       /\ LET r == DecodeLoop(rbuf \o SubSeq(wire, 1, n), published)
          IN  /\ rbuf' = r.buf
              /\ published' = r.out
       /\ wire' = SubSeq(wire, n + 1, Len(wire))
  /\ UNCHANGED <<c_pkts, c_alive, supVars, proxyVars, monVars, usbVars, restVars>>

\* the read timed out (15 s) or failed: `?` ends the reader
ReadInputError ==
  /\ c_alive
  /\ c_alive' = FALSE
  /\ UNCHANGED <<c_pkts, wire, rbuf, published, supVars, proxyVars, monVars, usbVars, restVars>>

CodecNext == ReadChunk \/ ReadInputError

(***************************************************************************)
(* The main loops of the two processors in an established MITM session:    *)
(* both handshakes are done, nothing is queued.                            *)
(***************************************************************************)
InitSteady ==
  /\ SessionRunning
  /\ CodecIdle
  /\ MonIdle
  /\ UsbIdle
  /\ RestIdle
  /\ mitm = TRUE
  /\ sod \in BOOLEAN
  /\ stop_by = {}
  /\ tls_errs = {}
  /\ tx_slot = 1
  /\ sensor_slot = 0
  /\ ep_pos = [e \in Sides |-> SteadyBase]
  /\ decoded = [e \in Sides |-> <<>>]
  /\ raw = [e \in Sides |-> <<>>]
  /\ cross = [e \in Sides |-> <<>>]
  /\ ppc = [e \in Sides |-> "cross"]
  /\ hs_i = [e \in Sides |-> IF e = "HU" THEN HuSteps + 1 ELSE MdSteps + 1]
  /\ tls_in = [e \in Sides |-> <<>>]
  /\ tls_progress = [e \in Sides |-> FlightsNeeded]
  /\ tls_built = [e \in Sides |-> TRUE]
  /\ ctx_sensor = [e \in Sides |-> 0]
  /\ wlog = [e \in Sides |-> <<>>]
  /\ injected = MaxInject
  /\ hooked = FALSE
  /\ early = [e \in Sides |-> FALSE]

SteadyNext ==
  \/ \E e \in Sides : ReaderPublish(e)
  \/ \E e \in Sides : TryRecvEmpty(e)
  \/ \E e \in Sides : ProcCross(e)
  \/ \E e \in Sides : ProcRaw(e)

(***************************************************************************)
(* transfer_monitor of one session, the traffic that moves the two byte    *)
(* counters, and the writers of the shared action slot.  Time is counted   *)
(* in 100 ms sleeps; ReadTimeoutTicks stands for read_timeout.             *)
(***************************************************************************)
InitMonitor ==
  /\ SessionRunning
  /\ tx_slot = 0
  /\ sensor_slot = 0
  /\ ProxyIdle
  /\ CodecIdle
  /\ MonIdle
  /\ UsbIdle
  /\ RestIdle

\* a step of the monitor or of a slot writer changes only the slot and monVars
NoSession == UNCHANGED <<sup_pc, stopped, btVars, tcp_start, need_restart, ioVars,
                         proxyVars, codecVars, usbVars, restVars>>

\* the stall test on the two deltas, and two mutations of it
StallDetectedBoth(du, dt) == du = 0 /\ dt = 0

StallDetectedAlways(du, dt) == TRUE

StallDetected(du, dt) == du = 0 \/ dt = 0

\* what leaves the slot when `new` is stored by `who`
Removed(new, who) ==
  IF action # "None" /\ action # new THEN <<action, who>> ELSE slot_rm

\* one iteration of the loop up to the read of the action slot: load the
\* counters, run the stall check if it is due, sample the slot, sleep 100 ms
MonitorTick ==
  /\ m_pc = "run"
  /\ LET due == m_elapsed > ReadTimeoutTicks
         du == usb_bytes - stall_usb_last
         dt == tcp_bytes - stall_tcp_last
         stall == due /\ StallDetected(du, dt)
     IN  /\ IF due
              THEN /\ m_check' = [n |-> m_check.n + 1,
                                  usb_same |-> usb_bytes = m_prev[1],
                                  tcp_same |-> tcp_bytes = m_prev[2],
                                  both_adv |-> m_adv = {"usb", "tcp"},
                                  none_adv |-> m_adv = {},
                                  failed |-> stall]
                   /\ stall_usb_last' = IF stall THEN du ELSE usb_bytes
                   /\ stall_tcp_last' = IF stall THEN dt ELSE tcp_bytes
                   /\ m_prev' = IF stall THEN m_prev ELSE <<usb_bytes, tcp_bytes>>
                   /\ m_adv' = IF stall THEN m_adv ELSE {}
              ELSE UNCHANGED <<m_check, stall_usb_last, stall_tcp_last, m_prev, m_adv>>
         /\ IF stall
              THEN /\ m_pc' = "stall"
                   /\ UNCHANGED <<m_seen, m_elapsed>>
              ELSE /\ m_seen' = action
                   /\ m_pc' = CASE action = "None" -> "run"
                                [] action = "Reconnect" -> "clear"
                                [] OTHER -> "action"
                   /\ m_elapsed' = IF action # "None" THEN m_elapsed
                                   ELSE IF due THEN 1 ELSE m_elapsed + 1
  /\ UNCHANGED <<action, usb_bytes, tcp_bytes, slot_rm, admin_n>>
  /\ NoSession

\* the monitor saw Reconnect: config.write().await.action_requested = None,
\* then it returns the error
MonitorClear ==
  /\ m_pc = "clear"
  /\ action' = "None"
  /\ slot_rm' = Removed("None", "monitor")
  /\ m_pc' = "action"
  /\ UNCHANGED <<m_elapsed, usb_bytes, tcp_bytes, stall_usb_last, stall_tcp_last,
                 m_prev, m_adv, m_check, m_seen, admin_n>>
  /\ NoSession

\* a processor transmitted a packet: fetch_add(HEADER_LENGTH + payload.len())
Traffic ==
  /\ m_pc \in {"run", "clear"}
  /\ \E c \in {"usb", "tcp"}, len \in {0, 1} :
       /\ (IF c = "usb" THEN usb_bytes ELSE tcp_bytes) + HEADER_LENGTH + len <= MaxBytes
       /\ usb_bytes' = IF c = "usb" THEN usb_bytes + HEADER_LENGTH + len ELSE usb_bytes
       /\ tcp_bytes' = IF c = "tcp" THEN tcp_bytes + HEADER_LENGTH + len ELSE tcp_bytes
       /\ m_adv' = m_adv \cup {c}
  /\ UNCHANGED <<action, m_pc, m_elapsed, stall_usb_last, stall_tcp_last, m_prev,
                 m_check, m_seen, slot_rm, admin_n>>
  /\ NoSession

\* restart_handler, reboot_handler / upload, and the hook on a ByeByeRequest
\* store an action, whatever the slot holds
StoreAction ==
  /\ admin_n < MaxAdmin
  /\ \E a \in Actions :
       /\ action' = a
       /\ slot_rm' = Removed(a, IF a = "Stop" THEN "hook" ELSE "admin")
  /\ admin_n' = admin_n + 1
  /\ UNCHANGED <<m_pc, m_elapsed, usb_bytes, tcp_bytes, stall_usb_last,
                 stall_tcp_last, m_prev, m_adv, m_check, m_seen>>
  /\ NoSession

\* set_config: the whole AppConfig is replaced by the posted one, whose
\* action_requested is None (the field is skipped by serde)
SetConfig ==
  /\ admin_n < MaxAdmin
  /\ action' = "None"
  /\ slot_rm' = Removed("None", "set_config")
  /\ admin_n' = admin_n + 1
  /\ UNCHANGED <<m_pc, m_elapsed, usb_bytes, tcp_bytes, stall_usb_last,
                 stall_tcp_last, m_prev, m_adv, m_check, m_seen>>
  /\ NoSession

\* action_handler, polled every 2 s: on Reboot clear the slot and run the
\* reboot command
ActionHandler ==
  /\ action = "Reboot"
  /\ action' = "None"
  /\ slot_rm' = <<"Reboot", "action_handler">>
  /\ UNCHANGED <<m_pc, m_elapsed, usb_bytes, tcp_bytes, stall_usb_last,
                 stall_tcp_last, m_prev, m_adv, m_check, m_seen, admin_n>>
  /\ NoSession

MonitorNext ==
  \/ MonitorTick \/ MonitorClear \/ Traffic
  \/ StoreAction \/ SetConfig \/ ActionHandler

(***************************************************************************)
(* UsbGadgetState: init, enable_default_and_wait_for_accessory, and the    *)
(* uevent listener.  A gadget is bound when its UDC file holds the name.   *)
(***************************************************************************)
InitUsb ==
  /\ SupInit
  /\ ProxyIdle
  /\ CodecIdle
  /\ MonIdle
  /\ RestIdle
  /\ u_pc = 0
  /\ legacy \in BOOLEAN
  /\ fs_ok \in BOOLEAN
  /\ udc_default \in BOOLEAN
  /\ udc_accessory = FALSE
  /\ permit = FALSE
  /\ u_try = 1
  /\ u_log = <<>>
  /\ u_signalled = FALSE
  /\ u_calls = 0
  /\ u_events = 0

NoUsb == UNCHANGED <<supVars, proxyVars, codecVars, monVars, restVars>>

\* the statements of the legacy branch, and a mutation of their order
UsbProgramSwapped ==
  <<"enable_default", "wait", "enable_accessory", "sleep", "disable_default">>

UsbProgram ==
  <<"enable_default", "wait", "disable_default", "sleep", "enable_accessory">>

\* the retry loop is `for _try in 1..=2`
MaxTries == 2

UsbStep(name) == u_pc \in 1..5 /\ UsbProgram[u_pc] = name

\* enable writes the UDC name unless the file already holds one;
\* disable writes "\n" if it holds one; both fail without configfs
EnableWrites(bound) == fs_ok /\ ~bound

DisableWrites(bound) == fs_ok /\ bound

\* init: disable default (legacy only), disable accessory; the supervisor
\* only logs an error and goes on to the call
UsbInit ==
  /\ u_pc = 0
  /\ u_calls < MaxCalls
  /\ u_calls' = u_calls + 1
  /\ udc_default' = IF legacy /\ DisableWrites(udc_default) THEN FALSE ELSE udc_default
  /\ udc_accessory' = IF DisableWrites(udc_accessory) THEN FALSE ELSE udc_accessory
  /\ u_pc' = IF legacy THEN 1 ELSE 5
  /\ u_try' = 1
  /\ u_log' = <<>>
  /\ u_signalled' = FALSE
  /\ UNCHANGED <<legacy, fs_ok, permit, u_events>>
  /\ NoUsb

UsbEnableDefault ==
  /\ UsbStep("enable_default")
  /\ udc_default' = (udc_default \/ EnableWrites(udc_default))
  /\ u_log' = Append(u_log, <<"enable_default", EnableWrites(udc_default)>>)
  /\ u_pc' = u_pc + 1
  /\ UNCHANGED <<legacy, fs_ok, udc_accessory, permit, u_try, u_signalled, u_calls,
                 u_events>>
  /\ NoUsb

\* timeout(3 s, notified()): the permit is taken if there is one
UsbWaitSignalled ==
  /\ UsbStep("wait")
  /\ permit
  /\ permit' = FALSE
  /\ u_signalled' = TRUE
  /\ u_log' = Append(u_log, <<"wait", TRUE>>)
  /\ u_pc' = u_pc + 1
  /\ UNCHANGED <<legacy, fs_ok, udc_default, udc_accessory, u_try, u_calls, u_events>>
  /\ NoUsb

\* the 3 s pass without a permit: next try, or out of the loop after the last
UsbWaitTimeout ==
  /\ UsbStep("wait")
  /\ ~permit
  /\ u_log' = Append(u_log, <<"wait", FALSE>>)
  /\ IF u_try < MaxTries
       THEN u_try' = u_try + 1 /\ u_pc' = 1
       ELSE u_try' = u_try /\ u_pc' = u_pc + 1
  /\ UNCHANGED <<legacy, fs_ok, udc_default, udc_accessory, permit, u_signalled,
                 u_calls, u_events>>
  /\ NoUsb

UsbDisableDefault ==
  /\ UsbStep("disable_default")
  /\ udc_default' = (udc_default /\ ~DisableWrites(udc_default))
  /\ u_log' = Append(u_log, <<"disable_default", DisableWrites(udc_default)>>)
  /\ u_pc' = u_pc + 1
  /\ UNCHANGED <<legacy, fs_ok, udc_accessory, permit, u_try, u_signalled, u_calls,
                 u_events>>
  /\ NoUsb

UsbSleep ==
  /\ UsbStep("sleep")
  /\ u_log' = Append(u_log, <<"sleep", FALSE>>)
  /\ u_pc' = u_pc + 1
  /\ UNCHANGED <<legacy, fs_ok, udc_default, udc_accessory, permit, u_try,
                 u_signalled, u_calls, u_events>>
  /\ NoUsb

UsbEnableAccessory ==
  /\ UsbStep("enable_accessory")
  /\ udc_accessory' = (udc_accessory \/ EnableWrites(udc_accessory))
  /\ u_log' = Append(u_log, <<"enable_accessory", EnableWrites(udc_accessory)>>)
  /\ u_pc' = u_pc + 1
  /\ UNCHANGED <<legacy, fs_ok, udc_default, permit, u_try, u_signalled, u_calls,
                 u_events>>
  /\ NoUsb

\* the session ended; the supervisor loop comes back to usb.init()
UsbNextSession ==
  /\ u_pc = 6
  /\ u_pc' = 0
  /\ UNCHANGED <<legacy, fs_ok, udc_default, udc_accessory, permit, u_try, u_log,
                 u_signalled, u_calls, u_events>>
  /\ NoUsb

\* uevent_listener: the host asked the bound default gadget for accessory
\* mode; notify_one stores a permit
UEvent ==
  /\ udc_default
  /\ u_events < MaxUevents
  /\ u_events' = u_events + 1
  /\ permit' = TRUE
  /\ UNCHANGED <<u_pc, legacy, fs_ok, udc_default, udc_accessory, u_try, u_log,
                 u_signalled, u_calls>>
  /\ NoUsb

UsbNext ==
  \/ UsbInit \/ UsbEnableDefault \/ UsbWaitSignalled \/ UsbWaitTimeout
  \/ UsbDisableDefault \/ UsbSleep \/ UsbEnableAccessory \/ UsbNextSession
  \/ UEvent

(***************************************************************************)
(* encrypt_payload on one end of a TLS session, decrypt_payload on the     *)
(* other, with the two SslMemBuf queues in between.  A TLS record is       *)
(* <<23, sequence number, length>> followed by the enciphered bytes.       *)
(***************************************************************************)
InitTls ==
  /\ SupInit
  /\ ProxyIdle
  /\ CodecIdle
  /\ MonIdle
  /\ UsbIdle
  /\ TlsIdle
  /\ SdrIdle
  /\ EvIdle
  /\ BatIdle
  /\ MsgIdle
  /\ LateIdle

NoTls == UNCHANGED <<supVars, proxyVars, codecVars, monVars, usbVars, sdrVars, evVars,
                     batVars, msgVars,
                     lateVars>>

RecordType == 23

Encipher(bytes) == [i \in 1..Len(bytes) |-> bytes[i] + 100]

Decipher(bytes) == [i \in 1..Len(bytes) |-> bytes[i] - 100]

Min(a, b) == IF a < b THEN a ELSE b

\* ssl_write: the plaintext leaves the engine as records of at most
\* MaxRecord bytes, written to server_stream; nothing for an empty buffer
RECURSIVE SslWrite(_, _)
SslWrite(plain, seq) ==
  IF plain = <<>> THEN <<>>
  ELSE LET k == Min(Len(plain), MaxRecord)
       IN  <<RecordType, seq, k>> \o Encipher(SubSeq(plain, 1, k))
             \o SslWrite(SubSeq(plain, k + 1, Len(plain)), seq + 1)

RecordsIn(plain) == (Len(plain) + MaxRecord - 1) \div MaxRecord

\* SslMemBuf::read_to: read_to_end of server_stream, and a mutation that
\* takes one record header's worth of bytes
ReadToShort(stream) ==
  [data |-> SubSeq(stream, 1, Min(3, Len(stream))),
   rest |-> SubSeq(stream, Min(3, Len(stream)) + 1, Len(stream))]

ReadTo(stream) == [data |-> stream, rest |-> <<>>]

\* SslMemBuf::write_from: the bytes are appended to client_stream
WriteFrom(stream, bytes) == stream \o bytes

\* server.read_to_end: every complete record of client_stream is read and
\* its plaintext appended; an incomplete record stays in the buffer; a
\* record that is not the next one of the session is an error
RECURSIVE SslReadToEnd(_, _)
SslReadToEnd(stream, seq) ==
  IF Len(stream) < 3 \/ Len(stream) < 3 + stream[3]
    THEN [plain |-> <<>>, rest |-> stream, seq |-> seq, err |-> FALSE]
  ELSE IF stream[1] # RecordType \/ stream[2] # seq
    THEN [plain |-> <<>>, rest |-> stream, seq |-> seq, err |-> TRUE]
  ELSE LET n == stream[3]
           r == SslReadToEnd(SubSeq(stream, 4 + n, Len(stream)), seq + 1)
       IN  [r EXCEPT !.plain = Decipher(SubSeq(stream, 4, 3 + n)) \o @]

TlsPayloads ==
  {<<>>} \cup {p \in {SubSeq(<<7, 8, 9, 10, 11>>, a, b) : a \in 1..3, b \in 1..5} :
                Len(p) <= MaxPlain}

\* pkt.encrypt_payload(&mut mem_buf, &mut server), then the packet travels
TlsEncrypt ==
  /\ Len(t_sent) < MaxTlsPkts
  /\ \E plain \in TlsPayloads, enc \in BOOLEAN :
       LET flags == (IF enc THEN ENCRYPTED ELSE 0) + FRAME_TYPE_FIRST + FRAME_TYPE_LAST
           out == ReadTo(t_server \o SslWrite(plain, t_wseq))
       IN  /\ t_sent' = Append(t_sent, [flags |-> flags, payload |-> plain])
           /\ IF HasFlag(flags, ENCRYPTED)
                THEN /\ t_flight' = Append(t_flight, [flags |-> flags, payload |-> out.data])
                     /\ t_server' = out.rest
                     /\ t_wseq' = t_wseq + RecordsIn(plain)
                ELSE /\ t_flight' = Append(t_flight, [flags |-> flags, payload |-> plain])
                     /\ UNCHANGED <<t_server, t_wseq>>
  /\ UNCHANGED <<t_rseq, t_client, t_got, t_err>>
  /\ NoTls

\* pkt.decrypt_payload(&mut mem_buf, &mut server) at the peer
TlsDecrypt ==
  /\ t_flight # <<>>
  /\ ~t_err
  /\ LET pkt == Head(t_flight)
         r == SslReadToEnd(WriteFrom(t_client, pkt.payload), t_rseq)
     IN  /\ t_flight' = Tail(t_flight)
         /\ IF HasFlag(pkt.flags, ENCRYPTED)
              THEN /\ t_client' = r.rest
                   /\ t_rseq' = r.seq
                   /\ t_err' = r.err
                   /\ t_got' = IF r.err THEN t_got
                               ELSE Append(t_got, [flags |-> pkt.flags, payload |-> r.plain])
              ELSE /\ t_got' = Append(t_got, pkt)
                   /\ UNCHANGED <<t_client, t_rseq, t_err>>
  /\ UNCHANGED <<t_wseq, t_server, t_sent>>
  /\ NoTls

TlsNext == TlsEncrypt \/ TlsDecrypt

(***************************************************************************)
(* The ServiceDiscoveryResponse branch of pkt_modify_hook.  A service is a *)
(* record with its id, whether media_sink_service is present, the          *)
(* audio_type field ("unset" when absent), the number of audio_configs,    *)
(* the sensor types of sensor_source_service.sensors, and whether          *)
(* bluetooth_service and wifi_projection_service are present.  The hook's  *)
(* changes to the video density and to make / model touch none of these    *)
(* and are left out.                                                       *)
(***************************************************************************)
\* what audio_type() returns when the field is not set: the first value of
\* the enum in the protocol definition
AudioTypeDefault == "AUDIO_STREAM_GUIDANCE"

\* svc.media_sink_service.audio_type()
AudioType(svc) ==
  IF svc.sink /\ svc.audio_type # "unset" THEN svc.audio_type ELSE AudioTypeDefault

\* the kinds of service a head unit may advertise
ServiceKinds ==
  LET S(sink, at, ac, sens, bt, wifi) ==
        [sink |-> sink, audio_type |-> at, audio_configs |-> ac,
         sensors |-> sens, bt |-> bt, wifi |-> wifi]
  IN { S(TRUE, "unset", 0, <<>>, FALSE, FALSE),                    \* video sink
       S(TRUE, "AUDIO_STREAM_GUIDANCE", 1, <<>>, FALSE, FALSE),
       S(TRUE, "AUDIO_STREAM_MEDIA", 1, <<>>, FALSE, FALSE),
       S(TRUE, "AUDIO_STREAM_GUIDANCE", 0, <<>>, FALSE, FALSE),    \* no audio_configs
       S(FALSE, "unset", 0, <<"SENSOR_SPEED", "SENSOR_NIGHT_MODE">>, FALSE, FALSE),
       S(TRUE, "AUDIO_STREAM_MEDIA", 1, <<"SENSOR_SPEED">>, FALSE, FALSE),
       S(FALSE, "unset", 0, <<>>, TRUE, FALSE),                    \* bluetooth
       S(FALSE, "unset", 0, <<>>, FALSE, TRUE) }                   \* wifi projection

\* the services of a message, the i-th with id i
ServiceLists ==
  UNION { { [i \in 1..n |-> [id |-> i] @@ f[i]] : f \in [1..n -> ServiceKinds] }
          : n \in 0..MaxServices }

Toggles ==
  [disable_tts_sink : BOOLEAN, disable_media_sink : BOOLEAN, ev : BOOLEAN,
   video_in_motion : BOOLEAN, remove_tap_restriction : BOOLEAN,
   remove_bluetooth : BOOLEAN, remove_wifi : BOOLEAN]

\* iter().find(): the index of the first element the closure accepts, 0 for
\* None; hits[i] tells whether it accepts the i-th
FirstWhere(hits) ==
  IF \E i \in 1..Len(hits) : hits[i]
    THEN CHOOSE i \in 1..Len(hits) : hits[i] /\ \A j \in 1..(i - 1) : ~hits[j]
    ELSE 0

\* the closure of the "disable tts sink" find
IsGuidanceSink(svc) ==
  svc.audio_configs > 0 /\ AudioType(svc) = "AUDIO_STREAM_GUIDANCE"

Guidance(svcs) == [i \in 1..Len(svcs) |-> IsGuidanceSink(svcs[i])]

SetAudioTypeNot(svc, t) == svc

\* media_sink_service.as_mut().unwrap().set_audio_type(t)
SetAudioType(svc, t) == [svc EXCEPT !.audio_type = t]

\* while let Some(svc) = find(guidance sink) { set_audio_type(SYSTEM_AUDIO) };
\* n counts the iterations, and an input on which the loop has run more often
\* than there are services is reported with that count
RECURSIVE TtsLoop(_, _)
TtsLoop(svcs, n) ==
  LET i == FirstWhere(Guidance(svcs))
  IN IF i = 0 \/ n > Len(svcs)
       THEN [services |-> svcs, iter |-> n]
       ELSE TtsLoop([svcs EXCEPT ![i] = SetAudioType(@, "AUDIO_STREAM_SYSTEM_AUDIO")],
                    n + 1)

DisableTtsSink(svcs) == TtsLoop(svcs, 0)

\* the closure of the "disable media sink" retain
NotMedia(svc) == AudioType(svc) # "AUDIO_STREAM_MEDIA"

RECURSIVE DropFirstMedia(_)
DropFirstMedia(svcs) ==
  IF svcs = <<>> THEN <<>>
  ELSE IF NotMedia(Head(svcs)) THEN <<Head(svcs)>> \o DropFirstMedia(Tail(svcs))
  ELSE Tail(svcs)

DisableMediaSinkFirst(svcs) == DropFirstMedia(svcs)

\* msg.services.retain(|svc| audio_type() != AUDIO_STREAM_MEDIA)
DisableMediaSink(svcs) == SelectSeq(svcs, NotMedia)

HasSensors(svc) == svc.sensors # <<>>

Sensing(svcs) == [i \in 1..Len(svcs) |-> HasSensors(svcs[i])]

CaptureEnabledEvOnly(cfg) == cfg.ev

\* if cfg.ev || cfg.video_in_motion
CaptureEnabled(cfg) == cfg.ev \/ cfg.video_in_motion

NotSpeed(t) == t # "SENSOR_SPEED"

\* the first service with sensors loses its SENSOR_SPEED entries
RemoveTapRestriction(svcs) ==
  LET i == FirstWhere(Sensing(svcs))
  IN IF i = 0 THEN svcs
     ELSE [svcs EXCEPT ![i].sensors = SelectSeq(@, NotSpeed)]

NoBluetooth(svc) == ~svc.bt

NoWifi(svc) == ~svc.wifi

\* the first service with sensors gains SENSOR_VEHICLE_ENERGY_MODEL_DATA
EvFeatures(svcs) ==
  LET i == FirstWhere(Sensing(svcs))
  IN IF i = 0 THEN svcs
     ELSE [svcs EXCEPT ![i].sensors = Append(@, "SENSOR_VEHICLE_ENERGY_MODEL_DATA")]

\* the steps of the branch in the order of the code
SdrRewrite(cfg, svcs) ==
  LET tts   == IF cfg.disable_tts_sink THEN DisableTtsSink(svcs)
               ELSE [services |-> svcs, iter |-> 0]
      media == IF cfg.disable_media_sink THEN DisableMediaSink(tts.services)
               ELSE tts.services
      si    == IF CaptureEnabled(cfg) THEN FirstWhere(Sensing(media)) ELSE 0
      tap   == IF cfg.remove_tap_restriction THEN RemoveTapRestriction(media)
               ELSE media
      nobt  == IF cfg.remove_bluetooth THEN SelectSeq(tap, NoBluetooth) ELSE tap
      nowf  == IF cfg.remove_wifi THEN SelectSeq(nobt, NoWifi) ELSE nobt
      evf   == IF cfg.ev THEN EvFeatures(nowf) ELSE nowf
  IN [services |-> evf,
      store    |-> si # 0,
      sensor   |-> IF si = 0 THEN 0 ELSE media[si].id,
      iter     |-> tts.iter]

InitSdr ==
  /\ SupInit
  /\ ProxyIdle
  /\ CodecIdle
  /\ MonIdle
  /\ UsbIdle
  /\ TlsIdle
  /\ EvIdle
  /\ BatIdle
  /\ MsgIdle
  /\ LateIdle
  /\ sdr_cfg \in Toggles
  /\ sdr_parsed \in BOOLEAN
  /\ sdr_in \in (IF sdr_parsed THEN ServiceLists ELSE {<<>>})
  /\ sdr_out = <<>>
  /\ sdr_ctx = 0
  /\ sdr_slot = 0
  /\ sdr_iter = 0
  /\ sdr_pc = "in"

NoSdr == UNCHANGED <<supVars, proxyVars, codecVars, monVars, usbVars, tlsVars, evVars,
                     batVars, msgVars,
                     lateVars>>

\* pkt_modify_hook of the HeadUnit proxy on a ServiceDiscoveryResponse
SdrFromHu ==
  /\ sdr_pc = "in"
  /\ sdr_pc' = "hu"
  /\ IF ~sdr_parsed
       THEN /\ sdr_out' = sdr_in
            /\ UNCHANGED <<sdr_ctx, sdr_slot, sdr_iter>>
       ELSE LET r == SdrRewrite(sdr_cfg, sdr_in)
            IN /\ sdr_out' = r.services
               /\ sdr_ctx' = IF r.store THEN r.sensor ELSE sdr_ctx
               /\ sdr_slot' = IF r.store THEN r.sensor ELSE sdr_slot
               /\ sdr_iter' = r.iter
  /\ UNCHANGED <<sdr_cfg, sdr_parsed, sdr_in>>
  /\ NoSdr

\* pkt_modify_hook of the MobileDevice proxy: the message is left alone
SdrFromMd ==
  /\ sdr_pc = "in"
  /\ sdr_pc' = "md"
  /\ sdr_out' = sdr_in
  /\ UNCHANGED <<sdr_cfg, sdr_parsed, sdr_in, sdr_ctx, sdr_slot, sdr_iter>>
  /\ NoSdr

SdrNext == SdrFromHu \/ SdrFromMd

(***************************************************************************)
(* The EV battery logger.  io_loop takes a copy of the configuration at    *)
(* the top of every iteration (io_uring.rs:230), the processors take one   *)
(* when they start (mitm.rs:780); the hook sends Start from the            *)
(* processors' copy, the teardown sends Stop from io_loop's copy.  The EV  *)
(* task (ev.rs) receives the commands one at a time.                       *)
(***************************************************************************)
InitEv ==
  /\ SupInit
  /\ ProxyIdle
  /\ CodecIdle
  /\ MonIdle
  /\ UsbIdle
  /\ TlsIdle
  /\ SdrIdle
  /\ BatIdle
  /\ MsgIdle
  /\ LateIdle
  /\ e_pc = "top"
  /\ e_sess = 0
  /\ e_shared \in BOOLEAN
  /\ e_io = FALSE
  /\ e_px = FALSE
  /\ e_queue = <<>>
  /\ e_task = "recv"
  /\ e_child = FALSE
  /\ e_proc = 0
  /\ e_signals = <<>>
  /\ e_admin = 0

NoEv == UNCHANGED <<supVars, proxyVars, codecVars, monVars, usbVars, tlsVars, sdrVars,
                    batVars, msgVars,
                     lateVars>>

\* let config = config.read().await.clone() at the top of the loop
EvIoTop ==
  /\ e_pc = "top"
  /\ e_sess < MaxEvSessions
  /\ e_io' = e_shared
  /\ e_pc' = "setup"
  /\ UNCHANGED <<e_sess, e_shared, e_px, e_queue, e_task, e_child, e_proc,
                 e_signals, e_admin>>
  /\ NoEv

\* the connections are there: the tasks are spawned and the processors read
\* the configuration
EvIoSpawn ==
  /\ e_pc = "setup"
  /\ e_sess' = e_sess + 1
  /\ e_px' = e_shared
  /\ e_pc' = "run"
  /\ UNCHANGED <<e_shared, e_io, e_queue, e_task, e_child, e_proc, e_signals,
                 e_admin>>
  /\ NoEv

\* the accept timed out or a device could not be opened: continue
EvIoSetupFails ==
  /\ e_pc = "setup"
  /\ e_pc' = "top"
  /\ UNCHANGED <<e_sess, e_shared, e_io, e_px, e_queue, e_task, e_child, e_proc,
                 e_signals, e_admin>>
  /\ NoEv

\* the hook answers a SENSOR_MESSAGE_REQUEST for the energy model and sends
\* Start if its copy of the configuration names a logger
EvHookStart ==
  /\ e_pc = "run"
  /\ e_px
  /\ e_task # "dead"
  /\ Len(e_queue) < MaxEvQueue
  /\ e_queue' = Append(e_queue, [cmd |-> "Start", sess |-> e_sess])
  /\ UNCHANGED <<e_pc, e_sess, e_shared, e_io, e_px, e_task, e_child, e_proc,
                 e_signals, e_admin>>
  /\ NoEv

\* a task ended: the aborts, the two slots, then Stop if io_loop's copy of
\* the configuration names a logger; a failed send ends io_loop
EvIoTeardown ==
  /\ e_pc = "run"
  /\ IF ~e_io
       THEN e_pc' = "top" /\ UNCHANGED e_queue
       ELSE IF e_task = "dead"
         THEN e_pc' = "exited" /\ UNCHANGED e_queue
         ELSE /\ Len(e_queue) < MaxEvQueue
              /\ e_queue' = Append(e_queue, [cmd |-> "Stop", sess |-> e_sess])
              /\ e_pc' = "top"
  /\ UNCHANGED <<e_sess, e_shared, e_io, e_px, e_task, e_child, e_proc,
                 e_signals, e_admin>>
  /\ NoEv

\* rx.recv() of the EV task returned a Start: spawn unless a child is held;
\* Command::spawn failing panics the task (expect)
EvTaskStart ==
  /\ e_task = "recv"
  /\ e_queue # <<>>
  /\ Head(e_queue).cmd = "Start"
  /\ IF e_child
       THEN /\ e_queue' = Tail(e_queue)
            /\ UNCHANGED <<e_task, e_child, e_proc>>
       ELSE \E spawned \in BOOLEAN :
              IF spawned
                THEN /\ e_queue' = Tail(e_queue)
                     /\ e_child' = TRUE
                     /\ e_proc' = Head(e_queue).sess
                     /\ UNCHANGED e_task
                ELSE /\ e_task' = "dead"
                     /\ e_queue' = <<>>
                     /\ UNCHANGED <<e_child, e_proc>>
  /\ UNCHANGED <<e_pc, e_sess, e_shared, e_io, e_px, e_signals, e_admin>>
  /\ NoEv

\* rx.recv() returned a Stop: child.take(), SIGTERM, then the 2 s sleep
EvTaskStop ==
  /\ e_task = "recv"
  /\ e_queue # <<>>
  /\ Head(e_queue).cmd = "Stop"
  /\ e_queue' = Tail(e_queue)
  /\ IF e_child
       THEN /\ e_child' = FALSE
            /\ e_signals' = <<"SIGTERM">>
            /\ e_task' = "grace"
       ELSE UNCHANGED <<e_child, e_signals, e_task>>
  /\ UNCHANGED <<e_pc, e_sess, e_shared, e_io, e_px, e_proc, e_admin>>
  /\ NoEv

\* the sleep is over: try_wait finds the process gone, or it is still there
\* and gets SIGKILL and is waited for
EvTaskGraceOver ==
  /\ e_task = "grace"
  /\ \E gone \in BOOLEAN :
       e_signals' = IF gone THEN e_signals ELSE Append(e_signals, "SIGKILL")
  /\ e_proc' = 0
  /\ e_task' = "recv"
  /\ UNCHANGED <<e_pc, e_sess, e_shared, e_io, e_px, e_queue, e_child, e_admin>>
  /\ NoEv

\* the administrator stores a configuration with ev_battery_logger changed
EvAdmin ==
  /\ e_pc # "exited"
  /\ e_admin < MaxEvAdmin
  /\ e_admin' = e_admin + 1
  /\ e_shared' = ~e_shared
  /\ UNCHANGED <<e_pc, e_sess, e_io, e_px, e_queue, e_task, e_child, e_proc,
                 e_signals>>
  /\ NoEv

EvNext ==
  \/ EvIoTop \/ EvIoSpawn \/ EvIoSetupFails \/ EvHookStart \/ EvIoTeardown
  \/ EvTaskStart \/ EvTaskStop \/ EvTaskGraceOver \/ EvAdmin

(***************************************************************************)
(* POST /battery.  battery_handler locks the sensor channel, then the      *)
(* injection handle, and keeps both guards until it has sent; the teardown *)
(* of io_loop locks the handle, then the sensor channel.  The sensor       *)
(* channel of a session is represented by the number of the session.       *)
(***************************************************************************)
InitBattery ==
  /\ SupInit
  /\ ProxyIdle
  /\ CodecIdle
  /\ MonIdle
  /\ UsbIdle
  /\ TlsIdle
  /\ SdrIdle
  /\ EvIdle
  /\ MsgIdle
  /\ LateIdle
  /\ b_pc = "top"
  /\ b_sess = 0
  /\ b_tx = 0
  /\ b_sc = 0
  /\ b_lock_tx = "free"
  /\ b_lock_sc = "free"
  /\ b_web = "idle"
  /\ b_ch = 0
  /\ b_txc = 0
  /\ b_inj = <<>>
  /\ b_posts = 0

NoBat == UNCHANGED <<supVars, proxyVars, codecVars, monVars, usbVars, tlsVars, sdrVars,
                     evVars, msgVars,
                     lateVars>>

ResetSlotKeeps(v) == v

\* *tx_lock = None; *sc_lock = None
ResetSlot(v) == 0

\* the connections are there: the handle is set if config.mitm && config.ev,
\* and the tasks are spawned
BatIoSpawn ==
  /\ b_pc = "top"
  /\ b_sess < MaxBatSessions
  /\ \E ev \in BOOLEAN :
       IF ev THEN b_lock_tx = "free" /\ b_tx' = b_sess + 1
             ELSE UNCHANGED b_tx
  /\ b_sess' = b_sess + 1
  /\ b_pc' = "run"
  /\ UNCHANGED <<b_sc, b_lock_tx, b_lock_sc, b_web, b_ch, b_txc, b_inj, b_posts>>
  /\ NoBat

\* the hook of the HeadUnit processor stores the sensor channel
BatHuSetsSensor ==
  /\ b_pc = "run"
  /\ b_lock_sc = "free"
  /\ b_sc' = b_sess
  /\ UNCHANGED <<b_pc, b_sess, b_tx, b_lock_tx, b_lock_sc, b_web, b_ch, b_txc,
                 b_inj, b_posts>>
  /\ NoBat

\* try_join! returned; the five abort() calls
BatIoAbort ==
  /\ b_pc = "run"
  /\ b_pc' = "aborted"
  /\ UNCHANGED <<b_sess, b_tx, b_sc, b_lock_tx, b_lock_sc, b_web, b_ch, b_txc,
                 b_inj, b_posts>>
  /\ NoBat

\* let mut tx_lock = tx.lock().await; *tx_lock = None
BatIoLockTx ==
  /\ b_pc = "aborted"
  /\ b_lock_tx = "free"
  /\ b_lock_tx' = "io"
  /\ b_tx' = ResetSlot(b_tx)
  /\ b_pc' = "tx_none"
  /\ UNCHANGED <<b_sess, b_sc, b_lock_sc, b_web, b_ch, b_txc, b_inj, b_posts>>
  /\ NoBat

\* let mut sc_lock = sensor_channel.lock().await; *sc_lock = None; the rest
\* of the iteration, at whose end both guards are dropped
BatIoLockSc ==
  /\ b_pc = "tx_none"
  /\ b_lock_sc = "free"
  /\ b_sc' = ResetSlot(b_sc)
  /\ b_lock_tx' = "free"
  /\ b_pc' = "top"
  /\ UNCHANGED <<b_sess, b_tx, b_lock_sc, b_web, b_ch, b_txc, b_inj, b_posts>>
  /\ NoBat

\* a request without a level, or with a percentage out of range: 400
BatWebRejects ==
  /\ b_web = "idle"
  /\ b_posts < MaxPosts
  /\ b_posts' = b_posts + 1
  /\ UNCHANGED <<b_pc, b_sess, b_tx, b_sc, b_lock_tx, b_lock_sc, b_web, b_ch,
                 b_txc, b_inj>>
  /\ NoBat

\* if let Some(ch) = *state.sensor_channel.lock().await: the guard stays
\* for the body; with None the handler warns and answers
BatWebLockSc ==
  /\ b_web = "idle"
  /\ b_posts < MaxPosts
  /\ b_posts' = b_posts + 1
  /\ b_lock_sc = "free"
  /\ IF b_sc = 0
       THEN UNCHANGED <<b_lock_sc, b_web, b_ch>>
       ELSE /\ b_lock_sc' = "web"
            /\ b_ch' = b_sc
            /\ b_web' = "has_sc"
  /\ UNCHANGED <<b_pc, b_sess, b_tx, b_sc, b_lock_tx, b_txc, b_inj>>
  /\ NoBat

\* if let Some(tx) = state.tx.lock().await.clone()
BatWebLockTx ==
  /\ b_web = "has_sc"
  /\ b_lock_tx = "free"
  /\ IF b_tx = 0
       THEN /\ b_lock_sc' = "free"
            /\ b_web' = "idle"
            /\ UNCHANGED <<b_lock_tx, b_txc>>
       ELSE /\ b_lock_tx' = "web"
            /\ b_txc' = b_tx
            /\ b_web' = "has_tx"
            /\ UNCHANGED b_lock_sc
  /\ UNCHANGED <<b_pc, b_sess, b_tx, b_sc, b_ch, b_inj, b_posts>>
  /\ NoBat

\* send_ev_data: the packet is built and sent on ch with the cloned handle,
\* or an error is logged; then both guards are dropped
BatWebSend ==
  /\ b_web = "has_tx"
  /\ \E sent \in BOOLEAN :
       b_inj' = IF sent
                  THEN Append(b_inj, [queue |-> b_txc, channel |-> b_ch,
                                      sess |-> b_sess, pc |-> b_pc,
                                      tx |-> b_tx, sc |-> b_sc])
                  ELSE b_inj
  /\ b_lock_tx' = "free"
  /\ b_lock_sc' = "free"
  /\ b_web' = "idle"
  /\ UNCHANGED <<b_pc, b_sess, b_tx, b_sc, b_ch, b_txc, b_posts>>
  /\ NoBat

BatteryNext ==
  \/ BatIoSpawn \/ BatHuSetsSensor \/ BatIoAbort \/ BatIoLockTx \/ BatIoLockSc
  \/ BatWebRejects \/ BatWebLockSc \/ BatWebLockTx \/ BatWebSend

(***************************************************************************)
(* read_message at the stages 2, 4 and 5 of the bootstrap, on the bytes    *)
(* the phone sends: a header of two length bytes and two id bytes, then    *)
(* the payload.  The stream ends after the bytes of Init.                  *)
(***************************************************************************)
\* the ids the three calls expect, in order
ExpectedIds == <<WifiInfoRequest, WifiStartResponse, WifiConnectStatus>>

\* payloads a phone message may carry: none, a status of 0, a nonzero
\* status, a string field
PhonePayloads == { <<>>, <<8, 0>>, <<8, 1>>, <<10, 1, 65>> }

\* write_u16 (big endian)
U16Bytes(n) == <<n \div 256, n % 256>>

\* u16::from_be_bytes
U16FromBe(hi, lo) == hi * 256 + lo

PhoneMessage(id, payload) == U16Bytes(Len(payload)) \o U16Bytes(id) \o payload

RECURSIVE Concat(_)
Concat(msgs) == IF msgs = <<>> THEN <<>> ELSE Head(msgs) \o Concat(Tail(msgs))

\* what the phone sends: up to MaxPhoneMsgs messages, whole, or with the last
\* byte missing
PhoneStreams ==
  LET msgs   == { PhoneMessage(id, p) : id \in MessageIds, p \in PhonePayloads }
      whole  == UNION { { Concat(f) : f \in [1..n -> msgs] } : n \in 0..MaxPhoneMsgs }
  IN whole \cup { SubSeq(w, 1, Len(w) - 1) : w \in whole \ {<<>>} }

InitMsg ==
  /\ SupInit
  /\ ProxyIdle
  /\ CodecIdle
  /\ MonIdle
  /\ UsbIdle
  /\ TlsIdle
  /\ SdrIdle
  /\ EvIdle
  /\ BatIdle
  /\ LateIdle
  /\ m_stream \in PhoneStreams
  /\ m_read = 0
  /\ m_result = "none"
  /\ m_log = <<>>

NoMsg == UNCHANGED <<supVars, proxyVars, codecVars, monVars, usbVars, tlsVars, sdrVars,
                     evVars, batVars,
                     lateVars>>

\* read_message(stream, stage, id, started) for the next of the three reads
MsgRead ==
  /\ m_result = "none"
  /\ m_read < Len(ExpectedIds)
  /\ LET id   == ExpectedIds[m_read + 1]
         have == Len(m_stream)
     IN IF have < HEADER_LEN
          THEN /\ m_result' = "err_io"
               /\ m_stream' = <<>>
               /\ UNCHANGED <<m_read, m_log>>
          ELSE LET len  == U16FromBe(m_stream[1], m_stream[2])
                   got  == U16FromBe(m_stream[3], m_stream[4])
                   rest == SubSeq(m_stream, HEADER_LEN + 1, have)
               IN IF len > 0 /\ Len(rest) < len
                    THEN /\ m_result' = "err_io"
                         /\ m_stream' = <<>>
                         /\ UNCHANGED <<m_read, m_log>>
                    ELSE LET payload == SubSeq(rest, 1, len)
                             fails   == ReadMessageFails(id, payload)
                         IN /\ m_stream' = SubSeq(rest, len + 1, Len(rest))
                            /\ m_log' = Append(m_log,
                                 [expected |-> id, got |-> got, payload |-> payload,
                                  consumed |-> have - (Len(rest) - len),
                                  failed |-> fails])
                            /\ m_read' = IF fails THEN m_read ELSE m_read + 1
                            /\ m_result' =
                                 IF fails THEN "err_status"
                                 ELSE IF m_read + 1 = Len(ExpectedIds) THEN "ok"
                                 ELSE "none"
  /\ NoMsg

\* the caller after read_message: tcp_start.notify_one() and shutdown after
\* the third read, or the error handed up by `?`
MsgReturn ==
  /\ m_result \in {"ok", "err_io", "err_status"}
  /\ m_result' = "returned"
  /\ UNCHANGED <<m_stream, m_read, m_log>>
  /\ NoMsg

MsgNext == MsgRead \/ MsgReturn

(***************************************************************************)
(* The supervisor loop of tokio_main and io_loop over several sessions, in *)
(* the wireless and in the wired variant (config.wired: the phone is on    *)
(* the USB host port, no Bluetooth bootstrap and no tcp_start).  The two   *)
(* loops run on different runtimes and meet only in the two Notify objects *)
(* and in the action slot.                                                 *)
(***************************************************************************)
MaxIters == 3

MaxLifeAttempts == 3

MaxLifeSessions == 2

InitLife ==
  /\ SupInit
  /\ ProxyIdle
  /\ CodecIdle
  /\ MonIdle
  /\ UsbIdle
  /\ TlsIdle
  /\ SdrIdle
  /\ EvIdle
  /\ BatIdle
  /\ MsgIdle
  /\ CrossIdle
  /\ GadgetIdle
  /\ HookIdle
  /\ FrameIdle
  /\ l_wired \in BOOLEAN
  /\ l_sup = "usb_init"
  /\ l_iter = 1
  /\ l_attempt = 0
  /\ l_stopped = FALSE
  /\ l_action = "None"
  /\ l_tcp = FALSE
  /\ l_need = FALSE
  /\ l_io = "top"
  /\ l_sess = 0
  /\ l_spawn_iter = 0
  /\ l_mon_start = "None"
  /\ l_stop_sess = 0

\* the variables of the studies up to the read_message study
earlyVars == <<supVars, proxyVars, codecVars, monVars, usbVars, tlsVars, sdrVars,
               evVars, batVars, msgVars>>

NoLoop == UNCHANGED <<earlyVars, crossVars, gadgetVars, hookVars, frameVars>>

\* usb.init() (an error is only logged); the bootstrap loop is entered only
\* in the wireless variant (wifi_conf is Some)
LifeUsbInit ==
  /\ l_sup = "usb_init"
  /\ l_sup' = IF l_wired THEN "usb_enable" ELSE "bt_loop"
  /\ UNCHANGED <<l_wired, l_iter, l_attempt, l_stopped, l_action, l_tcp, l_need, l_io,
                 l_sess, l_spawn_iter, l_mon_start, l_stop_sess>>
  /\ NoLoop

\* top of the bootstrap loop: read the slot, call bluetooth_setup_connection
LifeBtCall ==
  /\ l_sup = "bt_loop"
  /\ l_attempt < MaxLifeAttempts
  /\ l_stopped' = (l_action = "Stop")
  /\ l_attempt' = l_attempt + 1
  /\ l_sup' = "bt_run"
  /\ UNCHANGED <<l_wired, l_iter, l_action, l_tcp, l_need, l_io, l_sess, l_spawn_iter,
                 l_mon_start, l_stop_sess>>
  /\ NoLoop

\* the dialogue went through: tcp_start.notify_one(), before the shutdown
LifeBtNotify ==
  /\ l_sup = "bt_run"
  /\ l_tcp' = TRUE
  /\ l_sup' = "bt_shutdown"
  /\ UNCHANGED <<l_wired, l_iter, l_attempt, l_stopped, l_action, l_need, l_io, l_sess,
                 l_spawn_iter, l_mon_start, l_stop_sess>>
  /\ NoLoop

\* a fallible call of the bootstrap failed, the shutdown after the notify
\* included: Err, sleep 1 s, next iteration of the bootstrap loop
LifeBtErr ==
  /\ l_sup \in {"bt_run", "bt_shutdown"}
  /\ l_sup' = "bt_loop"
  /\ UNCHANGED <<l_wired, l_iter, l_attempt, l_stopped, l_action, l_tcp, l_need, l_io,
                 l_sess, l_spawn_iter, l_mon_start, l_stop_sess>>
  /\ NoLoop

\* Ok(state): clear a Stop that was pending when the attempt began, break
LifeBtOk ==
  /\ l_sup = "bt_shutdown"
  /\ l_action' = IF l_stopped THEN "None" ELSE l_action
  /\ l_sup' = "usb_enable"
  /\ UNCHANGED <<l_wired, l_iter, l_attempt, l_stopped, l_tcp, l_need, l_io, l_sess,
                 l_spawn_iter, l_mon_start, l_stop_sess>>
  /\ NoLoop

\* enable_usb_if_present, bt_stop.await
LifeUsbEnable ==
  /\ l_sup = "usb_enable"
  /\ l_sup' = "wait_restart"
  /\ UNCHANGED <<l_wired, l_iter, l_attempt, l_stopped, l_action, l_tcp, l_need, l_io,
                 l_sess, l_spawn_iter, l_mon_start, l_stop_sess>>
  /\ NoLoop

\* need_restart.notified().await returns as soon as there is a permit
LifeRestarted ==
  /\ l_sup = "wait_restart"
  /\ l_need
  /\ l_need' = FALSE
  /\ l_sup' = "restart_sleep"
  /\ UNCHANGED <<l_wired, l_iter, l_attempt, l_stopped, l_action, l_tcp, l_io, l_sess,
                 l_spawn_iter, l_mon_start, l_stop_sess>>
  /\ NoLoop

\* the 1 s pause is over: the next iteration of the supervisor loop
LifeLoop ==
  /\ l_sup = "restart_sleep"
  /\ l_iter < MaxIters
  /\ l_iter' = l_iter + 1
  /\ l_sup' = "usb_init"
  /\ UNCHANGED <<l_wired, l_attempt, l_stopped, l_action, l_tcp, l_need, l_io, l_sess,
                 l_spawn_iter, l_mon_start, l_stop_sess>>
  /\ NoLoop

\* top of io_loop: wired goes straight to usb_stream::new, wireless waits
\* for a tcp_start permit and takes it
LifeIoTop ==
  /\ l_io = "top"
  /\ l_sess < MaxLifeSessions
  /\ l_wired \/ l_tcp
  /\ l_tcp' = IF l_wired THEN l_tcp ELSE FALSE
  /\ l_io' = "connect"
  /\ UNCHANGED <<l_wired, l_sup, l_iter, l_attempt, l_stopped, l_action, l_need, l_sess,
                 l_spawn_iter, l_mon_start, l_stop_sess>>
  /\ NoLoop

\* usb_stream::new, tcp_wait_for_connection or the open of the accessory
\* device failed: need_restart.notify_one(); continue
LifeIoConnectFailed ==
  /\ l_io = "connect"
  /\ l_need' = TRUE
  /\ l_io' = "top"
  /\ UNCHANGED <<l_wired, l_sup, l_iter, l_attempt, l_stopped, l_action, l_tcp, l_sess,
                 l_spawn_iter, l_mon_start, l_stop_sess>>
  /\ NoLoop

\* both endpoints are open: the tasks of the session are spawned, the
\* monitor among them
LifeIoSpawn ==
  /\ l_io = "connect"
  /\ l_sess' = l_sess + 1
  /\ l_spawn_iter' = l_iter
  /\ l_mon_start' = l_action
  /\ l_io' = "join"
  /\ UNCHANGED <<l_wired, l_sup, l_iter, l_attempt, l_stopped, l_action, l_tcp, l_need,
                 l_stop_sess>>
  /\ NoLoop

\* the hook of the running session stores Stop (ByeByeRequest, USER_SELECTION)
LifeHookStop ==
  /\ l_io = "join"
  /\ l_stop_sess = 0
  /\ l_action' = "Stop"
  /\ l_stop_sess' = l_sess
  /\ UNCHANGED <<l_wired, l_sup, l_iter, l_attempt, l_stopped, l_tcp, l_need, l_io,
                 l_sess, l_spawn_iter, l_mon_start>>
  /\ NoLoop

\* the monitor finds an action in the slot and returns the error (Stop is
\* left in the slot), or another task fails: try_join! returns
LifeSessionFails ==
  /\ l_io = "join"
  /\ l_io' = "teardown"
  /\ UNCHANGED <<l_wired, l_sup, l_iter, l_attempt, l_stopped, l_action, l_tcp, l_need,
                 l_sess, l_spawn_iter, l_mon_start, l_stop_sess>>
  /\ NoLoop

\* aborts, slot resets, need_restart.notify_one(), next iteration
LifeIoTeardown ==
  /\ l_io = "teardown"
  /\ l_need' = TRUE
  /\ l_io' = "top"
  /\ UNCHANGED <<l_wired, l_sup, l_iter, l_attempt, l_stopped, l_action, l_tcp, l_sess,
                 l_spawn_iter, l_mon_start, l_stop_sess>>
  /\ NoLoop

LifeNext ==
  \/ LifeUsbInit \/ LifeBtCall \/ LifeBtNotify \/ LifeBtErr \/ LifeBtOk
  \/ LifeUsbEnable \/ LifeRestarted \/ LifeLoop
  \/ LifeIoTop \/ LifeIoConnectFailed \/ LifeIoSpawn
  \/ LifeHookStop \/ LifeSessionFails \/ LifeIoTeardown

(***************************************************************************)
(* The main loops of the two processors in steady state, seen through the  *)
(* two cross queues (mpsc::channel(10)): a processor takes at most one     *)
(* packet from its own queue, then puts at most two into its peer's (the   *)
(* reply of a handled packet, and the packet of its reader).  Both         *)
(* endpoints accept writes; a tx.send() waits while the queue is full.     *)
(***************************************************************************)
MaxCrossInject == 2

InitCross ==
  /\ SupInit
  /\ ProxyIdle
  /\ CodecIdle
  /\ MonIdle
  /\ UsbIdle
  /\ TlsIdle
  /\ SdrIdle
  /\ EvIdle
  /\ BatIdle
  /\ MsgIdle
  /\ LifeIdle
  /\ GadgetIdle
  /\ HookIdle
  /\ FrameIdle
  /\ x_q = [e \in Sides |-> 0]
  /\ x_pc = [e \in Sides |-> "cross"]
  /\ x_handled = [e \in Sides |-> FALSE]
  /\ x_inj = 0
  /\ x_wait = [e \in Sides |-> <<>>]
  /\ x_web = "idle"

NoCross == UNCHANGED <<earlyVars, lifeVars, gadgetVars, hookVars, frameVars>>

\* the hook can report handled only where ctx.sensor_channel is set, which
\* the ServiceDiscoveryResponse branch does for the HeadUnit processor only
CanHandle(e) == e = "HU"

\* a receiver took a packet from the queue of side e: the permit goes to
\* the sender that has waited longest (the semaphore of the channel is
\* fair), whose send completes; without a waiter the queue has one less
FirstWaiter(e) == IF x_wait[e] = <<>> THEN "none" ELSE Head(x_wait[e])

AfterRecvPc(e, handled) ==
  LET w == FirstWaiter(e)
      own == [x_pc EXCEPT ![e] = IF handled THEN "reply" ELSE "raw"]
  IN  IF w \in Sides
        THEN [own EXCEPT ![w] = IF x_pc[w] = "reply_wait" THEN "raw" ELSE "cross"]
        ELSE own

\* rx.try_recv() found the queue empty
CrossEmpty(e) ==
  /\ x_pc[e] = "cross"
  /\ x_q[e] = 0
  /\ x_handled' = [x_handled EXCEPT ![e] = FALSE]
  /\ x_pc' = [x_pc EXCEPT ![e] = "raw"]
  /\ UNCHANGED <<x_q, x_inj, x_wait, x_web>>
  /\ NoCross

\* rx.try_recv() returned a packet: the hook; handled: the reply has to go
\* to the peer; else encrypt and transmit to the own endpoint
CrossRecv(e) ==
  /\ x_pc[e] = "cross"
  /\ x_q[e] > 0
  /\ x_q' = [x_q EXCEPT ![e] = IF FirstWaiter(e) = "none" THEN @ - 1 ELSE @]
  /\ x_wait' = [x_wait EXCEPT ![e] = IF @ = <<>> THEN @ ELSE Tail(@)]
  /\ x_web' = IF FirstWaiter(e) = "web" THEN "idle" ELSE x_web
  /\ x_inj' = IF FirstWaiter(e) = "web" THEN x_inj + 1 ELSE x_inj
  /\ \E handled \in {h \in BOOLEAN : h => CanHandle(e)} :
       /\ x_handled' = [x_handled EXCEPT ![e] = handled]
       /\ x_pc' = AfterRecvPc(e, handled)
  /\ NoCross

\* tx.send(pkt).await: the packet goes into the peer's queue if it has
\* room, else the sender joins the waiters
SendOrWait(e, next, waiting) ==
  IF x_q[Peer(e)] < QueueCap
    THEN /\ x_q' = [x_q EXCEPT ![Peer(e)] = @ + 1]
         /\ x_pc' = [x_pc EXCEPT ![e] = next]
         /\ UNCHANGED x_wait
    ELSE /\ x_pc' = [x_pc EXCEPT ![e] = waiting]
         /\ x_wait' = [x_wait EXCEPT ![Peer(e)] = Append(@, e)]
         /\ UNCHANGED x_q

\* tx.send(pkt).await of the reply of a handled packet
CrossReply(e) ==
  /\ x_pc[e] = "reply"
  /\ SendOrWait(e, "raw", "reply_wait")
  /\ UNCHANGED <<x_handled, x_inj, x_web>>
  /\ NoCross

\* rxr.try_recv(): nothing from the reader, or a packet that fails to
\* decrypt and is dropped; sleep 5 ms
RawNone(e) ==
  /\ x_pc[e] = "raw"
  /\ x_pc' = [x_pc EXCEPT ![e] = "cross"]
  /\ UNCHANGED <<x_q, x_handled, x_inj, x_wait, x_web>>
  /\ NoCross

\* rxr.try_recv() returned a packet, decrypt and hook are done
RawRecv(e) ==
  /\ x_pc[e] = "raw"
  /\ x_pc' = [x_pc EXCEPT ![e] = "fwd"]
  /\ UNCHANGED <<x_q, x_handled, x_inj, x_wait, x_web>>
  /\ NoCross

\* tx.send(pkt).await of the forwarded packet; then sleep 5 ms
RawForward(e) ==
  /\ x_pc[e] = "fwd"
  /\ SendOrWait(e, "cross", "fwd_wait")
  /\ UNCHANGED <<x_handled, x_inj, x_web>>
  /\ NoCross

\* battery_handler: tx.send(pkt).await on the clone of tx_hu, whose
\* packets go into the MD queue
CrossInject ==
  /\ x_web = "idle"
  /\ x_inj < MaxCrossInject
  /\ IF x_q["MD"] < QueueCap
       THEN /\ x_q' = [x_q EXCEPT !["MD"] = @ + 1]
            /\ x_inj' = x_inj + 1
            /\ UNCHANGED <<x_wait, x_web>>
       ELSE /\ x_web' = "wait"
            /\ x_wait' = [x_wait EXCEPT !["MD"] = Append(@, "web")]
            /\ UNCHANGED <<x_q, x_inj>>
  /\ UNCHANGED <<x_pc, x_handled>>
  /\ NoCross

\* the processor of side e waits in a tx.send() on its peer's full queue
Blocked(e) == x_pc[e] \in {"reply_wait", "fwd_wait"}

CrossNext ==
  \/ \E e \in Sides : CrossEmpty(e)
  \/ \E e \in Sides : CrossRecv(e)
  \/ \E e \in Sides : CrossReply(e)
  \/ \E e \in Sides : RawNone(e)
  \/ \E e \in Sides : RawRecv(e)
  \/ \E e \in Sides : RawForward(e)
  \/ CrossInject

(***************************************************************************)
(* UsbGadgetState once more, with each enable and disable able to fail on  *)
(* its own (configfs path missing, read_to_string or write_data failing),  *)
(* and with the origin of the accessory_started permit recorded.           *)
(***************************************************************************)
MaxGadgetCalls == 2

MaxGadgetEvents == 2

InitGadget ==
  /\ SupInit
  /\ ProxyIdle
  /\ CodecIdle
  /\ MonIdle
  /\ UsbIdle
  /\ TlsIdle
  /\ SdrIdle
  /\ EvIdle
  /\ BatIdle
  /\ MsgIdle
  /\ LifeIdle
  /\ CrossIdle
  /\ HookIdle
  /\ FrameIdle
  /\ g_legacy \in BOOLEAN
  /\ g_order \in BOOLEAN
  /\ g_pc = "init"
  /\ g_default \in (IF g_legacy THEN BOOLEAN ELSE {FALSE})
  /\ g_accessory = FALSE
  /\ g_call = 0
  /\ g_try = 1
  /\ g_armed = 0
  /\ g_permit = -1
  /\ g_woken = -1
  /\ g_events = 0
  /\ g_errs = {}

NoGadget == UNCHANGED <<earlyVars, lifeVars, crossVars, hookVars, frameVars>>

\* where enable_usb_if_present begins
SwitchStart == IF g_legacy THEN "enable_default" ELSE "enable_accessory"

\* init(): `self.disable(DEFAULT_GADGET_NAME)?` in legacy mode, then
\* `self.disable(ACCESSORY_GADGET_NAME)?`; the supervisor logs an error and
\* goes on.  With change_usb_order the switch comes before the bootstrap.
GadgetInit ==
  /\ g_pc = "init"
  /\ g_call < MaxGadgetCalls
  /\ g_call' = g_call + 1
  /\ \E okd, oka \in BOOLEAN :
       LET first == ~g_legacy \/ okd
       IN  /\ g_default' = IF g_legacy /\ okd THEN FALSE ELSE g_default
           /\ g_accessory' = IF first /\ oka THEN FALSE ELSE g_accessory
           /\ g_errs' = IF ~first THEN {"init_default"}
                        ELSE IF ~oka THEN {"init_accessory"} ELSE {}
  /\ g_try' = 1
  /\ g_woken' = -1
  /\ g_pc' = IF g_order THEN SwitchStart ELSE "bt"
  /\ UNCHANGED <<g_legacy, g_order, g_armed, g_permit, g_events>>
  /\ NoGadget

\* the Bluetooth bootstrap of the iteration
GadgetBootstrap ==
  /\ g_pc = "bt"
  /\ g_pc' = IF g_order THEN "session" ELSE SwitchStart
  /\ UNCHANGED <<g_legacy, g_order, g_default, g_accessory, g_call, g_try, g_armed,
                 g_permit, g_woken, g_events, g_errs>>
  /\ NoGadget

\* `let _ = self.enable(DEFAULT_GADGET_NAME);`
GadgetEnableDefault ==
  /\ g_pc = "enable_default"
  /\ \E ok \in BOOLEAN :
       /\ g_default' = (g_default \/ ok)
       /\ g_armed' = IF ok THEN g_call ELSE g_armed
       /\ g_errs' = IF ok THEN g_errs ELSE g_errs \cup {"enable_default"}
  /\ g_pc' = "wait"
  /\ UNCHANGED <<g_legacy, g_order, g_accessory, g_call, g_try, g_permit, g_woken,
                 g_events>>
  /\ NoGadget

\* timeout(3 s, accessory_started.notified()): a stored permit ends the wait
GadgetWaitSignalled ==
  /\ g_pc = "wait"
  /\ g_permit # -1
  /\ g_woken' = g_permit
  /\ g_permit' = -1
  /\ g_pc' = "disable_default"
  /\ UNCHANGED <<g_legacy, g_order, g_default, g_accessory, g_call, g_try, g_armed,
                 g_events, g_errs>>
  /\ NoGadget

\* the 3 s pass without a permit: next try, or out of the loop after the last
GadgetWaitTimeout ==
  /\ g_pc = "wait"
  /\ g_permit = -1
  /\ IF g_try < MaxTries
       THEN g_try' = g_try + 1 /\ g_pc' = "enable_default"
       ELSE g_try' = g_try /\ g_pc' = "disable_default"
  /\ UNCHANGED <<g_legacy, g_order, g_default, g_accessory, g_call, g_armed, g_permit,
                 g_woken, g_events, g_errs>>
  /\ NoGadget

\* `let _ = self.disable(DEFAULT_GADGET_NAME);`, sleep 100 ms
GadgetDisableDefault ==
  /\ g_pc = "disable_default"
  /\ \E ok \in BOOLEAN :
       /\ g_default' = (g_default /\ ~ok)
       /\ g_errs' = IF ok THEN g_errs ELSE g_errs \cup {"disable_default"}
  /\ g_pc' = "enable_accessory"
  /\ UNCHANGED <<g_legacy, g_order, g_accessory, g_call, g_try, g_armed, g_permit,
                 g_woken, g_events>>
  /\ NoGadget

\* `let _ = self.enable(ACCESSORY_GADGET_NAME);`
GadgetEnableAccessory ==
  /\ g_pc = "enable_accessory"
  /\ \E ok \in BOOLEAN :
       /\ g_accessory' = (g_accessory \/ ok)
       /\ g_errs' = IF ok THEN g_errs ELSE g_errs \cup {"enable_accessory"}
  /\ g_pc' = IF g_order THEN "bt" ELSE "session"
  /\ UNCHANGED <<g_legacy, g_order, g_default, g_call, g_try, g_armed, g_permit,
                 g_woken, g_events>>
  /\ NoGadget

\* need_restart: the session is over, the supervisor comes back to init()
GadgetSessionEnds ==
  /\ g_pc = "session"
  /\ g_pc' = "init"
  /\ UNCHANGED <<g_legacy, g_order, g_default, g_accessory, g_call, g_try, g_armed,
                 g_permit, g_woken, g_events, g_errs>>
  /\ NoGadget

\* uevent_listener (legacy only): the host asked the bound default gadget
\* for accessory mode; notify_one stores the permit
GadgetUEvent ==
  /\ g_legacy
  /\ g_default
  /\ g_events < MaxGadgetEvents
  /\ g_events' = g_events + 1
  /\ g_permit' = g_armed
  /\ UNCHANGED <<g_legacy, g_order, g_pc, g_default, g_accessory, g_call, g_try,
                 g_armed, g_woken, g_errs>>
  /\ NoGadget

GadgetNext ==
  \/ GadgetInit \/ GadgetBootstrap \/ GadgetEnableDefault \/ GadgetWaitSignalled
  \/ GadgetWaitTimeout \/ GadgetDisableDefault \/ GadgetEnableAccessory
  \/ GadgetSessionEnds \/ GadgetUEvent

(***************************************************************************)
(* One call of pkt_modify_hook on any packet and context, with the places  *)
(* where it indexes the payload or a parsed message.  The protobuf parser  *)
(* is not modelled: what NavigationState::parse_from_bytes returns is an   *)
(* input of the call.                                                      *)
(***************************************************************************)
MaxHookLen == 3

\* the channels of the study: control, and the two learned from the
\* ServiceDiscoveryResponse
HookSensorCh == 1

HookNavCh == 2

\* 0x80 0x06 0x0A is the fingerprint of the navigation branch
HookBytes == {0, 6, 10, 128}

HookPayloads == UNION { [1..n -> HookBytes] : n \in 0..MaxHookLen }

\* Err, Ok with no step, Ok with steps[0] a U_TURN_LEFT, Ok with another
NavParses == {"err", "no_steps", "left", "other"}

Returns(handled, payload, swapped) ==
  [done |-> TRUE, fault |-> FALSE, handled |-> handled, payload |-> payload,
   swapped |-> swapped]

Faults(payload) ==
  [done |-> TRUE, fault |-> TRUE, handled |-> FALSE, payload |-> payload,
   swapped |-> FALSE]

\* the navigation branch after the fingerprint matched: steps[0] is indexed
\* whatever the number of steps
NavRewrite(in) ==
  LET pl == in.payload
  IN  CASE in.parse = "err" -> Returns(FALSE, pl, FALSE)
        [] in.parse = "no_steps" -> Faults(pl)
        [] in.parse = "left" ->
             Returns(FALSE, <<HiByte(MessageId(pl)), LoByte(MessageId(pl))>>
                              \o SubSeq(pl, 3, Len(pl)), TRUE)
        [] OTHER -> Returns(FALSE, pl, FALSE)

\* pkt_modify_hook up to the control channel: the length test, the sensor
\* branch, the navigation branch with its `&&` chain evaluated from the
\* left (payload[2] is read once the four tests before it hold); a packet
\* that leaves the branch is on a channel other than 0 and returns
\* Ok(false), and the control messages index nothing
HookFaults(in) ==
  LET pl == in.payload
  IN  IF Len(pl) < 2 THEN Returns(FALSE, pl, FALSE)
      ELSE IF in.sensor # 0 /\ in.sensor = in.channel
        THEN Returns(in.ptype = "HU" /\ MessageId(pl) = SENSOR_MESSAGE_REQUEST, pl, FALSE)
      ELSE IF /\ in.nav # 0
              /\ in.nav = in.channel
              /\ in.ptype = "HU"
              /\ pl[1] = 128
              /\ pl[2] = 6
        THEN IF Len(pl) < 3 THEN Faults(pl)
             ELSE IF pl[3] = 10 THEN NavRewrite(in)
             ELSE Returns(FALSE, pl, FALSE)
      ELSE Returns(FALSE, pl, FALSE)

InitHook ==
  /\ SupInit
  /\ ProxyIdle
  /\ CodecIdle
  /\ MonIdle
  /\ UsbIdle
  /\ TlsIdle
  /\ SdrIdle
  /\ EvIdle
  /\ BatIdle
  /\ MsgIdle
  /\ LifeIdle
  /\ CrossIdle
  /\ GadgetIdle
  /\ FrameIdle
  /\ h_in \in [ptype : Sides, channel : {0, HookSensorCh, HookNavCh},
               payload : HookPayloads, sensor : {0, HookSensorCh},
               nav : {0, HookNavCh}, parse : NavParses]
  /\ h_out = [done |-> FALSE, fault |-> FALSE, handled |-> FALSE, payload |-> <<>>,
              swapped |-> FALSE]

\* the processor calls the hook on the packet
HookCall ==
  /\ ~h_out.done
  /\ h_out' = HookFaults(h_in)
  /\ UNCHANGED h_in
  /\ UNCHANGED <<earlyVars, lifeVars, crossVars, gadgetVars, frameVars>>

HookNext == HookCall

(***************************************************************************)
(* The length of a payload from endpoint_reader to Packet::transmit of the *)
(* peer: decrypt_payload, pkt_modify_hook, encrypt_payload, transmit.      *)
(* Only lengths are kept.  What the TLS layer adds to a payload is decided *)
(* by the two sessions (record headers, nonces, tags), taken here as any   *)
(* number of bytes from 1 to MaxOverhead, independently for each side.     *)
(***************************************************************************)
MaxOverhead == 3

MaxGrow == 2

MaxLenLow == 3

MaxLenGap == 5

\* the largest payload_length a header can carry
MaxU16 == 65535

\* payload_length values of the frames read: a few small ones and the
\* largest ones
WireLens == (0..MaxLenLow) \cup ((MaxU16 - MaxLenGap)..MaxU16)

\* `self.payload.len() as u16`
LenAsU16(n) == n % (MaxU16 + 1)

InitFrame ==
  /\ SupInit
  /\ ProxyIdle
  /\ CodecIdle
  /\ MonIdle
  /\ UsbIdle
  /\ TlsIdle
  /\ SdrIdle
  /\ EvIdle
  /\ BatIdle
  /\ MsgIdle
  /\ LifeIdle
  /\ CrossIdle
  /\ GadgetIdle
  /\ HookIdle
  /\ f_pc = "read"
  /\ f_enc \in BOOLEAN
  /\ f_sdr \in BOOLEAN
  /\ f_wire \in WireLens
  /\ f_len = f_wire
  /\ f_field = -1

NoFrame == UNCHANGED <<earlyVars, lifeVars, crossVars, gadgetVars, hookVars>>

\* decrypt_payload: an ENCRYPTED payload is replaced by its plaintext, or
\* the packet is dropped on an error; other payloads are left alone
FrameDecrypt ==
  /\ f_pc = "read"
  /\ IF f_enc
       THEN \E o \in 1..MaxOverhead :
              IF o <= f_len
                THEN f_len' = f_len - o /\ f_pc' = "plain"
                ELSE f_len' = f_len /\ f_pc' = "dropped"
       ELSE f_len' = f_len /\ f_pc' = "plain"
  /\ UNCHANGED <<f_enc, f_sdr, f_wire, f_field>>
  /\ NoFrame

\* pkt_modify_hook on the cross path of the peer: a rewritten message is
\* serialised anew and can be longer (added services, wider varints)
FrameHook ==
  /\ f_pc = "plain"
  /\ \E d \in 0..MaxGrow : f_len' = IF f_sdr /\ f_len >= 2 THEN f_len + d ELSE f_len
  /\ f_pc' = "hooked"
  /\ UNCHANGED <<f_enc, f_sdr, f_wire, f_field>>
  /\ NoFrame

\* encrypt_payload: ssl_write of the plaintext, the payload becomes what
\* read_to_end returns
FrameEncrypt ==
  /\ f_pc = "hooked"
  /\ \E o \in 1..MaxOverhead : f_len' = IF f_enc THEN f_len + o ELSE f_len
  /\ f_pc' = "cipher"
  /\ UNCHANGED <<f_enc, f_sdr, f_wire, f_field>>
  /\ NoFrame

\* transmit: the header carries `len as u16`, the whole payload follows
FrameTransmit ==
  /\ f_pc = "cipher"
  /\ f_field' = LenAsU16(f_len)
  /\ f_pc' = "sent"
  /\ UNCHANGED <<f_enc, f_sdr, f_wire, f_len>>
  /\ NoFrame

FrameNext == FrameDecrypt \/ FrameHook \/ FrameEncrypt \/ FrameTransmit

(***************************************************************************)
(* Claims about the bootstrap and the session life cycle (under Spec).     *)
(***************************************************************************)
ExpectedDialogue ==
  << [ev |-> "send", id |-> WifiStartRequest],
     [ev |-> "read", id |-> WifiInfoRequest],
     [ev |-> "send", id |-> WifiInfoResponse],
     [ev |-> "read", id |-> WifiStartResponse],
     [ev |-> "read", id |-> WifiConnectStatus],
     [ev |-> "notify", id |-> 0],
     [ev |-> "shutdown", id |-> 0] >>

\* C1: in every bootstrap attempt the five messages occur in the order
\* send WifiStartRequest, read WifiInfoRequest, send WifiInfoResponse, read
\* WifiStartResponse, read WifiConnectStatus; tcp_start is signalled only
\* after the fifth, and the stream is closed only after the signal: what an
\* attempt has done is always a prefix of that sequence.
C1_DialogueInOrder ==
  /\ Len(bt_log) <= Len(ExpectedDialogue)
  /\ \A i \in 1..Len(bt_log) : bt_log[i] = ExpectedDialogue[i]

\* an attempt that went through all five stages, the signal and the close
C1_Witness ==
  /\ bt_result = "ok"
  /\ bt_log = ExpectedDialogue

BtNotified == \E i \in 1..Len(bt_log) : bt_log[i].ev = "notify"

BtReturned == bt_pc = 0 /\ bt_result # "none"

\* C2 (as claimed): an attempt whose stage-5 message has a nonzero byte 1
\* returns an error, signals no tcp_start, starts no session and leaves the
\* supervisor in its retry loop; an attempt whose byte 1 is 0 succeeds.
C2_StatusDecides ==
  (BtReturned /\ Len(bt_status) >= 2) =>
     IF bt_status[2] # 0
       THEN /\ bt_result = "err"
            /\ ~BtNotified
            /\ tcp_start # attempt
            /\ sess_from # attempt
            /\ sup_pc \in {"bt_run", "bt_sleep", "bt_loop"}
       ELSE bt_result = "ok"

\* the half of C2 about a nonzero status, which the code keeps
C2_NonzeroFails ==
  (Len(bt_status) >= 2 /\ bt_status[2] # 0) =>
     /\ bt_pc = 0
     /\ bt_result = "err"
     /\ ~BtNotified
     /\ tcp_start # attempt
     /\ sess_from # attempt
     /\ sup_pc \in {"bt_run", "bt_sleep", "bt_loop"}

\* C36: an attempt that has returned has signalled tcp_start exactly if it
\* returned success, and a permit in tcp_start is that of the current
\* attempt, never one left by an earlier attempt.
C36_TcpStartIffSuccess ==
  /\ BtReturned => (BtNotified <=> bt_result = "ok")
  /\ tcp_start \in {0, attempt}

\* C36, the half about a permit left over
C36_NoPermitLeftOver == tcp_start \in {0, attempt}

TornDown == {"aborted", "tx_none", "sensor_none", "need_restart"}

\* C10: after a task of a session has ended with an error, all five tasks
\* are aborted, the injection handle and the sensor slot are reset and
\* need_restart is signalled before the tasks of the next session are
\* spawned; tasks of two sessions never run at the same time.
C10_TeardownBeforeNextSession ==
  /\ \A p \in running : p[1] = sess
  /\ \A s \in 1..(sess - 1) : torn[s] = TornDown
  /\ (io_pc \in {"top", "accept"} /\ sess > 0) => (tx_slot = 0 /\ sensor_slot = 0)
  /\ (io_pc \in {"reset", "ev_stop", "notify", "top", "accept"}) => running = {}

\* a second session runs after the first one was torn down
C10_Witness ==
  /\ sess = 2
  /\ running = {<<2, t>> : t \in Tasks}
  /\ torn[1] = TornDown


(***************************************************************************)
(* Claims about one proxy session (under SpecProxy).                       *)
(***************************************************************************)
InLoop(e) == ppc[e] \in {"cross", "raw"}

\* C3 (as claimed): on each side no packet with the ENCRYPTED flag is
\* decrypted, encrypted or written before that side's TLS handshake is
\* complete, and a processor is in its steady-state loop only with an
\* established TLS session.
C3_NoEncryptedBeforeTls ==
  \A e \in Sides :
    /\ ~early[e]
    /\ InLoop(e) => IsInitFinished(e)

\* the TLS packets a processor has produced itself and written
HsStarted(e) ==
  \E i \in 1..Len(wlog[e]) : wlog[e][i].src = "PROXY" /\ wlog[e][i].via = "own"

FirstWrittenIs(e, origin) ==
  /\ wlog[e] # <<>>
  /\ wlog[e][1].src = origin
  /\ wlog[e][1].seq = 1
  /\ wlog[e][1].frame = TransmitFrame(decoded[origin][1])

\* a processor's half of the version exchange is finished
HalfDone(e) ==
  IF e = "HU"
    THEN FirstWrittenIs("HU", "MD")
    ELSE /\ FirstWrittenIs("MD", "HU")
         /\ decoded["MD"] # <<>>
         /\ \A i \in 1..Len(raw["MD"]) : raw["MD"][i].seq # 1

\* C4: in MITM mode the first packet written to MD is the first packet
\* received from HU, the first packet written to HU is the first packet
\* received from MD, the write to MD precedes the write to HU, and neither
\* processor does a TLS handshake step before its half of the exchange is
\* finished.
C4_VersionExchangeFirst ==
  mitm =>
    /\ wlog["MD"] # <<>> => FirstWrittenIs("MD", "HU")
    /\ wlog["HU"] # <<>> => (FirstWrittenIs("HU", "MD") /\ wlog["MD"] # <<>>)
    /\ \A e \in Sides : (HsStarted(e) \/ hs_i[e] > 1 \/ tls_progress[e] > 0) => HalfDone(e)

\* both halves are finished and both handshakes have started
C4_Witness ==
  /\ mitm
  /\ HalfDone("HU") /\ HalfDone("MD")
  /\ HsStarted("HU") /\ HsStarted("MD")

\* the packets of one origin appear in a log in the order of their numbers
InOrder(log, origin) ==
  \A i, j \in 1..Len(log) :
    (i < j /\ log[i].src = origin /\ log[j].src = origin) => log[i].seq < log[j].seq

\* two packets of one origin, both sent after the handshake packets
TwoSteady(log, origin) ==
  \E i, j \in 1..Len(log) :
    /\ i < j
    /\ log[i].src = origin /\ log[j].src = origin
    /\ log[i].seq > 3

\* C5: per direction, the packets of one endpoint are handed to the peer's
\* cross_in and written to the other endpoint in the order the reader
\* decoded them: none overtakes an earlier one, none appears twice.
C5_OrderPreserved ==
  \A e \in Sides :
    /\ InOrder(raw[e], e)
    /\ InOrder(cross[Peer(e)], e)
    /\ InOrder(wlog[Peer(e)], e)
    /\ \A i \in 1..Len(wlog[Peer(e)]), j \in 1..Len(cross[Peer(e)]) :
         (wlog[Peer(e)][i].src = e /\ cross[Peer(e)][j].src = e)
            => wlog[Peer(e)][i].seq < cross[Peer(e)][j].seq

\* two steady-state packets were written in each direction
C5_Witness ==
  /\ mitm
  /\ TwoSteady(wlog["MD"], "HU")
  /\ TwoSteady(wlog["HU"], "MD")

\* the frame f carries exactly the fields of packet p
FrameCarries(f, p) ==
  LET hdr == IF p.final_length # <<>> THEN 8 ELSE 4
  IN  /\ Len(f) = hdr + Len(p.payload)
      /\ f[1] = p.channel
      /\ f[2] = p.flags
      /\ f[3] * 256 + f[4] = Len(p.payload)
      /\ p.final_length # <<>> =>
           ((f[5] * 256 + f[6]) * 256 + f[7]) * 256 + f[8] = p.final_length[1]
      /\ SubSeq(f, hdr + 1, Len(f)) = p.payload

\* C6: in passthrough mode the i-th packet written to an endpoint is the
\* i-th packet decoded from the other endpoint, with the same channel,
\* flags, total length and payload; the hook is never invoked and no TLS
\* state exists.
C6_PassthroughIdentity ==
  ~mitm =>
    /\ \A e \in Sides :
         /\ Len(wlog[e]) <= Len(decoded[Peer(e)])
         /\ \A i \in 1..Len(wlog[e]) : FrameCarries(wlog[e][i].frame, decoded[Peer(e)][i])
         /\ ~tls_built[e]
         /\ tls_progress[e] = 0
    /\ ~hooked

\* every packet of both endpoints was written to the other one, a first
\* fragment with a total length among them
C6_Witness ==
  /\ ~mitm
  /\ \A e \in Sides : Len(wlog[e]) = MaxPassPkts
  /\ \E i \in 1..Len(wlog["MD"]) : decoded["HU"][i].final_length # <<>>

\* C9: every frame written to an endpoint was written by that side's
\* processor, and a battery packet of the admin reaches the phone only
\* through the MD processor's cross_in.
C9_SingleWriter ==
  \A e \in Sides : \A i \in 1..Len(wlog[e]) :
    /\ wlog[e][i].by = ProcName(e)
    /\ wlog[e][i].src = "ADMIN" => (e = "MD" /\ wlog[e][i].via = "cross_in")

\* a battery packet was written to the phone
C9_Witness ==
  \E i \in 1..Len(wlog["MD"]) : wlog["MD"][i].src = "ADMIN"


(***************************************************************************)
(* Claims about the framing codec (under SpecCodec).                       *)
(***************************************************************************)
\* C7 (as claimed): whatever the partition of the stream into reads, once
\* the whole stream has been read the packets published are those published
\* when the whole stream comes in one read.
C7_ChunkIndependent ==
  (c_alive /\ wire = <<>>) => published = DecodeLoop(Stream(c_pkts), <<>>).out

ChannelAndPayload(pkts) ==
  [i \in 1..Len(pkts) |-> <<pkts[i].channel, pkts[i].payload>>]

AllWhole(pkts) == \A i \in 1..Len(pkts) : pkts[i].flags = Whole

\* C8 (as claimed): a sequence of whole-frame packets written with transmit
\* and read back by endpoint_reader is published with the same channels and
\* payloads, the last packet and empty payloads included.
C8_RoundTrip ==
  (c_alive /\ wire = <<>> /\ AllWhole(c_pkts)) =>
     ChannelAndPayload(published) = ChannelAndPayload(c_pkts)


\* C31: every packet published by endpoint_reader carries a total_length
\* exactly when its flags have FIRST without LAST; it is one of the packets
\* that were written, so that its header was taken with the right size (8
\* or 4 bytes), its payload is the payload_length bytes after the header,
\* and no frame is decoded before all its bytes are buffered.
C31_TotalLengthIffFirst ==
  /\ \A i \in 1..Len(published) :
       (published[i].final_length # <<>>)
         <=> (published[i].flags % (FRAME_TYPE_MASK + 1) = FRAME_TYPE_FIRST)
  /\ Len(published) <= Len(c_pkts)
  /\ \A i \in 1..Len(published) : published[i] = c_pkts[i]

(***************************************************************************)
(* Claims about the transfer monitor                                       *)
(***************************************************************************)
\* C11: a stall check happens at the first tick at which more than the stall
\* timeout has elapsed since the previous check; it fails the session with
\* the stall error exactly when one of the two counters has the value it had
\* at the previous check, and otherwise the monitor goes on with the new
\* values recorded.
C11_StallOnEitherCounter ==
  /\ m_elapsed <= ReadTimeoutTicks + 1
  /\ m_check.n > 0 => (m_check.failed <=> (m_check.usb_same \/ m_check.tcp_same))
  /\ (m_pc = "stall") <=> m_check.failed
  /\ m_pc # "stall" => stall_usb_last = m_prev[1] /\ stall_tcp_last = m_prev[2]

C11_Witness ==
  /\ m_pc = "stall"
  /\ m_check.n >= 2
  /\ m_check.usb_same
  /\ ~m_check.tcp_same

\* C12 as stated: the monitor fails for a stall only when neither counter
\* advanced during the window that the failing check closes.
C12_FailsOnlyWhenNeitherAdvanced ==
  m_pc = "stall" => m_adv = {}

\* C12, amended: the monitor does not fail while both counters advance in
\* every window and no action is seen pending; it fails for a stall only
\* when at least one counter did not advance during the whole window.
C12_NoFailWhenBothAdvance ==
  /\ m_pc = "stall" => m_adv # {"usb", "tcp"}
  /\ m_pc = "action" => m_seen # "None"
  /\ m_pc \in {"run", "clear", "stall", "action"}

C12_Witness ==
  /\ m_pc = "run"
  /\ m_check.n >= 2
  /\ m_check.both_adv
  /\ ~m_check.failed

\* C13: the monitor fails the session for an action reason only when it saw
\* an action in the slot; it clears the slot only for Reconnect; a Reboot
\* left in the slot is cleared by nobody but action_handler.
C13_RebootClearedOnlyByHandler ==
  /\ m_pc = "action" => m_seen # "None"
  /\ m_pc = "clear" => m_seen = "Reconnect"
  /\ slot_rm[1] = "Reboot" => slot_rm[2] \notin {"monitor", "set_config"}

\* C34: what the monitor removes from the slot is a Reconnect, what
\* action_handler removes is a Reboot, and a POST /config removes nothing:
\* a pending action leaves the slot only through the component that acts
\* on it.
C34_RemovedOnlyByActor ==
  /\ slot_rm[2] = "monitor" => slot_rm[1] = "Reconnect"
  /\ slot_rm[2] = "action_handler" => slot_rm[1] = "Reboot"
  /\ slot_rm[2] # "set_config"

\* C34, the read-then-clear sequence of the monitor alone
C34_MonitorRemovesReconnect == slot_rm[2] = "monitor" => slot_rm[1] = "Reconnect"

(***************************************************************************)
(* Claims about the USB gadget switch                                      *)
(***************************************************************************)
StepNames == [i \in 1..Len(u_log) |-> u_log[i][1]]

Waits == {i \in 1..Len(u_log) : u_log[i][1] = "wait"}

SwitchSteps == <<"enable_default", "wait", "disable_default", "sleep", "enable_accessory">>

\* C14: a legacy call in which the signal arrived binds default, waits,
\* unbinds default, sleeps and binds accessory, in this order (after one more
\* bind-and-wait if the first wait timed out), and with configfs present
\* the first bind, the unbind and the accessory bind write their files, and
\* the two gadgets are never bound together; a non-legacy call only binds
\* the accessory gadget.
C14_SwitchOrder ==
  /\ (legacy /\ u_pc = 6 /\ u_signalled) =>
        /\ StepNames \in {SwitchSteps, <<"enable_default", "wait">> \o SwitchSteps}
        /\ fs_ok => /\ u_log[1][2]
                    /\ u_log[Len(u_log) - 2][2]
                    /\ u_log[Len(u_log)][2]
                    /\ udc_accessory /\ ~udc_default
  /\ (legacy /\ fs_ok /\ u_calls > 0) => ~(udc_default /\ udc_accessory)
  /\ (~legacy /\ u_pc = 6) => u_log = << <<"enable_accessory", fs_ok>> >>
  /\ ~legacy => \A i \in 1..Len(u_log) : u_log[i][1] = "enable_accessory"

C14_Witness ==
  /\ legacy
  /\ fs_ok
  /\ u_pc = 6
  /\ u_signalled
  /\ Len(u_log) = 7

\* C15: a legacy call binds the accessory gadget only if one of its at most
\* two waits ended with the signal.
C15_AccessoryOnlyOnSuccess ==
  /\ Cardinality(Waits) <= 2
  /\ (legacy /\ Len(u_log) > 0 /\ u_log[Len(u_log)] = <<"enable_accessory", TRUE>>)
        => u_signalled

\* C16: after a wait that timed out the default gadget is bound anew (the
\* UDC name is written to default/UDC again) before the second wait, and a
\* call never waits more than twice.
C16_RetryRebinds ==
  /\ Cardinality(Waits) <= 2
  /\ (legacy /\ fs_ok) =>
        \A i \in 1..Len(u_log) : u_log[i][1] = "enable_default" => u_log[i][2]

(***************************************************************************)
(* Claims about the hook and the two paths of a processor                  *)
(***************************************************************************)
AllWritten ==
  UNION {{[to |-> e, w |-> wlog[e][i]] : i \in 1..Len(wlog[e])} : e \in Sides}

\* C17: a reply synthesized by the hook is delivered to the endpoint that
\* sent the request it replaces, and never to the opposite one; a packet
\* that was not handled is encrypted and written to the opposite endpoint.
C17_ReplyToRequester ==
  \A x \in AllWritten :
    /\ x.w.src = "REPLY_HU" => x.to = "HU"
    /\ x.w.src = "REPLY_MD" => x.to = "MD"
    /\ x.w.src \in Sides => x.w.src = Peer(x.to)
    /\ mitm /\ ep_pos[x.to] >= SteadyBase => x.w.frame[HEADER_LENGTH + 1] = CipherTag(x.to)

\* the hook invocations that the next step of a processor can make
HookCalls ==
  {[ptype |-> e, pkt |-> Head(cross[e]), sensor |-> ctx_sensor[e]] :
     e \in {d \in Sides : ppc[d] = "cross" /\ cross[d] # <<>>}}
  \cup
  {[ptype |-> e, pkt |-> [Head(raw[e]) EXCEPT !.payload = Decrypt(e, @)],
    sensor |-> ctx_sensor[e]] :
     e \in {d \in Sides : /\ ppc[d] = "raw" /\ raw[d] # <<>>
                          /\ HasFlag(Head(raw[d]).flags, ENCRYPTED)
                          /\ IsInitFinished(d) /\ DecryptOk(d, Head(raw[d]).payload)}}

IsEnergyRequest(c) ==
  /\ c.sensor # 0
  /\ c.pkt.channel = c.sensor
  /\ Len(c.pkt.payload) >= 3
  /\ SubSeq(c.pkt.payload, 1, 3) = <<128, 1, 23>>

C19_StopOnlyFromPhone ==
  /\ action = "Stop" => stop_by # {}
  /\ \A r \in stop_by : sod /\ r.src = "MD" /\ r.reason = USER_SELECTION

(***************************************************************************)
(* Claims about a pending Stop                                             *)
(***************************************************************************)
\* C20: an attempt that began with Stop pending spawns no outbound connect
\* task; when it returns Ok the supervisor clears the slot, when it returns
\* an error the slot is left as it is.
C20_StopSuppressesConnect ==
  [][ /\ stopped' => bt_connect' # "spawned"
      /\ (sup_pc = "bt_run" /\ sup_pc' = "usb_enable" /\ stopped) => action' = "None"
      /\ (sup_pc = "bt_run" /\ sup_pc' = "bt_sleep") => action' = action ]_vars

C20_Witness ==
  /\ stopped
  /\ bt_connect = "suppressed"
  /\ bt_log = BtDoneLog
  /\ sup_pc = "usb_enable"
  /\ action = "None"

(***************************************************************************)
(* Claims about TLS                                                        *)
(***************************************************************************)
\* C21: a TLS error raised in a processor ends that processor exactly when
\* its code is not WANT_READ, WANT_WRITE or SYSCALL, in the handshake as in
\* the decryption or encryption of a packet.
C21_FatalTlsErrorEndsProcessor ==
  \A r \in tls_errs : r.exited <=> r.code \notin BenignCodes

\* C22: the packets that decrypt_payload leaves at the peer are the packets
\* handed to encrypt_payload, payload for payload and in the same order;
\* after each call nothing is left in server_stream or in client_stream.
C22_EncryptDecryptSymmetry ==
  /\ ~t_err
  /\ t_server = <<>>
  /\ t_client = <<>>
  /\ Len(t_got) + Len(t_flight) = Len(t_sent)
  /\ t_got = SubSeq(t_sent, 1, Len(t_got))

C22_Witness ==
  /\ Len(t_got) = 2
  /\ \A i \in 1..2 : HasFlag(t_got[i].flags, ENCRYPTED)
  /\ Len(t_got[1].payload) > MaxRecord
  /\ t_got[2].payload # <<>>
  /\ t_got[1].payload # t_got[2].payload

(***************************************************************************)
(* Claims about the ServiceDiscoveryResponse rewriter (under SpecSdr).     *)
(***************************************************************************)
Ids(svcs) == [i \in 1..Len(svcs) |-> svcs[i].id]

SdrDone == sdr_pc = "hu" /\ sdr_parsed

C24_OnlyMediaSinksDropped ==
  (SdrDone /\ sdr_cfg.disable_media_sink) =>
    /\ \A j \in 1..Len(sdr_out) : NotMedia(sdr_out[j])
    /\ Ids(sdr_out) = Ids(SelectSeq(sdr_in, NotMedia))

\* a service of the input that no step of the branch removes
C24_Stays(svc) ==
  /\ NotMedia(svc)
  /\ ~(sdr_cfg.remove_bluetooth /\ svc.bt)
  /\ ~(sdr_cfg.remove_wifi /\ svc.wifi)

\* C24 (amended): with disable_media_sink set, the output has no service
\* whose audio_type is AUDIO_STREAM_MEDIA, and every service of the input
\* that is neither a media audio sink nor a service that remove_bluetooth
\* or remove_wifi takes out is still there, in the original order.
C24_MediaSinksDropped ==
  (SdrDone /\ sdr_cfg.disable_media_sink) =>
    /\ \A j \in 1..Len(sdr_out) : NotMedia(sdr_out[j])
    /\ Ids(sdr_out) = Ids(SelectSeq(sdr_in, C24_Stays))

\* a media sink between two other services is dropped and the two stay
C24_Witness ==
  /\ SdrDone
  /\ sdr_cfg.disable_media_sink
  /\ Len(sdr_in) = 3
  /\ ~NotMedia(sdr_in[2])
  /\ Ids(sdr_out) = <<1, 3>>

AllSensors(svcs) ==
  UNION { { svcs[i].sensors[k] : k \in 1..Len(svcs[i].sensors) } : i \in 1..Len(svcs) }

\* C25: with remove_tap_restriction set, no service of the output has a
\* sensor of type SENSOR_SPEED, also when more than one service of the
\* input has a non-empty sensor list.
C25_NoSpeedSensorLeft ==
  (SdrDone /\ sdr_cfg.remove_tap_restriction) =>
    "SENSOR_SPEED" \notin AllSensors(sdr_out)

\* the service of the output with the id of svc has audio_type t
C26_Becomes(svc, t) ==
  \E j \in 1..Len(sdr_out) : sdr_out[j].id = svc.id /\ sdr_out[j].audio_type = t

\* C26 (as claimed): with disable_tts_sink set, every service of the input
\* whose audio_type is AUDIO_STREAM_GUIDANCE has AUDIO_STREAM_SYSTEM_AUDIO
\* in the output, no service with AUDIO_STREAM_GUIDANCE remains, and the
\* loop terminates.
C26_NoGuidanceLeft ==
  (SdrDone /\ sdr_cfg.disable_tts_sink) =>
    /\ \A i \in 1..Len(sdr_in) :
         sdr_in[i].audio_type = "AUDIO_STREAM_GUIDANCE"
           => C26_Becomes(sdr_in[i], "AUDIO_STREAM_SYSTEM_AUDIO")
    /\ \A j \in 1..Len(sdr_out) : sdr_out[j].audio_type # "AUDIO_STREAM_GUIDANCE"
    /\ sdr_iter <= Len(sdr_in)

\* C26 (amended): with disable_tts_sink set, every service of the input with
\* audio_configs and audio_type AUDIO_STREAM_GUIDANCE has
\* AUDIO_STREAM_SYSTEM_AUDIO in the output, no service with audio_configs
\* and AUDIO_STREAM_GUIDANCE remains, and the loop ends after one iteration
\* per such service.
C26_NoGuidanceSinkLeft ==
  (SdrDone /\ sdr_cfg.disable_tts_sink) =>
    /\ \A i \in 1..Len(sdr_in) :
         IsGuidanceSink(sdr_in[i])
           => C26_Becomes(sdr_in[i], "AUDIO_STREAM_SYSTEM_AUDIO")
    /\ \A j \in 1..Len(sdr_out) : ~IsGuidanceSink(sdr_out[j])
    /\ sdr_iter = Cardinality({i \in 1..Len(sdr_in) : IsGuidanceSink(sdr_in[i])})

\* two guidance sinks were turned into system audio sinks
C26_Witness ==
  /\ SdrDone
  /\ sdr_cfg.disable_tts_sink
  /\ sdr_iter = 2
  /\ Cardinality({j \in 1..Len(sdr_out) :
                    sdr_out[j].audio_type = "AUDIO_STREAM_SYSTEM_AUDIO"}) = 2


(***************************************************************************)
(* Claims about the EV battery logger (under SpecEv).                      *)
(***************************************************************************)
StopUnderWay ==
  \/ e_task = "grace"
  \/ \E i \in 1..Len(e_queue) : e_queue[i].cmd = "Stop"

\* C27: a logger process started in a session is stopped after that session
\* (SIGTERM, 2 s, SIGKILL): while a later session runs, a process started
\* by an earlier session is either gone or has its Stop under way, also
\* when the configuration is changed during setup or run.
C27_LoggerStoppedAfterSession ==
  (e_pc = "run" /\ e_proc # 0 /\ e_proc < e_sess) => StopUnderWay

BatDeadlock ==
  /\ b_web = "has_sc"
  /\ b_pc = "tx_none"

(***************************************************************************)
(* Claim about a failing usb.init() (under SpecUsb).                       *)
(***************************************************************************)
\* usb.init() of the current iteration of the supervisor loop returned an
\* error: without configfs its first disable() fails
UsbInitFailed == ~fs_ok /\ u_calls > 0 /\ u_pc # 0

\* C29: if usb.init() fails, the supervisor aborts that session start and
\* goes back to the top of its loop: no step of the gadget switch (enable
\* of the default gadget, wait, enable of the accessory gadget) is taken
\* in an iteration whose init failed.
C29_InitFailureAbortsStart ==
  UsbInitFailed => u_log = <<>>

(***************************************************************************)
(* Claim about read_message (under SpecMsg).                               *)
(***************************************************************************)
\* C30: at the stages 2, 4 and 5 a message whose id is not the expected
\* one does not abort the bootstrap: it is consumed (4 header bytes and the
\* announced payload length) and the dialogue advances; the only failure
\* that depends on the content of a message is a WifiConnectStatus with a
\* nonzero status.
C30_WrongIdDoesNotAbort ==
  \A k \in 1..Len(m_log) :
    LET r == m_log[k]
    IN /\ r.consumed = HEADER_LEN + Len(r.payload)
       /\ r.got # r.expected => ~r.failed
       /\ r.failed => /\ r.got = WifiConnectStatus
                      /\ Len(r.payload) >= 2
                      /\ r.payload[2] # 0

(***************************************************************************)
(* Claims about the supervisor and io_loop over several sessions (under    *)
(* SpecLife).                                                              *)
(***************************************************************************)
\* C32: while a session is running the supervisor is still in the iteration
\* that prepared it: it has not gone past the wait for need_restart, so it
\* runs neither usb.init() nor a gadget switch during the session, wired
\* or wireless.
C32_NoNewIterationDuringSession ==
  l_io = "join" =>
    /\ l_iter = l_spawn_iter
    /\ l_sup \notin {"restart_sleep"}

\* C32 in the wired variant alone
C32_Wired == l_wired => C32_NoNewIterationDuringSession

\* C32 in the wireless variant alone
C32_Wireless == ~l_wired => C32_NoNewIterationDuringSession

\* C35: when the monitor of a session starts, the slot does not hold a Stop
\* recorded during an earlier session, wired or wireless.
C35_StopEndsOneSession ==
  l_io = "join" => l_mon_start # "Stop"

\* C35 in the wired variant alone
C35_Wired == l_wired => C35_StopEndsOneSession

\* C35 in the wireless variant alone
C35_Wireless == ~l_wired => C35_StopEndsOneSession

(***************************************************************************)
(* Claims about the cross queues (under SpecCross).                        *)
(***************************************************************************)
\* C33: the two processors are never both waiting in a send into the
\* other's full cross queue, also when an iteration sends a reply and a
\* forwarded packet: at least one processor can step.
C33_NeverBothBlocked == ~(Blocked("HU") /\ Blocked("MD"))

(***************************************************************************)
(* Claims about the gadget switch with failing calls (under SpecGadget).   *)
(***************************************************************************)
\* C37: at most one of the two gadgets is bound to the UDC, also when a
\* call on the configfs files fails, with change_usb_order on or off.
C37_AtMostOneBound == ~(g_default /\ g_accessory)

\* C37 when every call of the iteration succeeded
C37_AtMostOneBoundNoError ==
  (g_legacy /\ g_call > 0 /\ g_errs = {}) => ~(g_default /\ g_accessory)

\* C38: a wait of a legacy call that got the signal got one that was stored
\* after the default gadget was bound in that call, not an earlier one.
C38_WokenByOwnEvent == g_woken \in {-1, g_call}

(***************************************************************************)
(* Claims about faults of the hook (under SpecHook).                       *)
(***************************************************************************)
\* C39: a call of pkt_modify_hook never faults, whatever the packet and the
\* context, and leaves a payload shorter than 2 bytes unchanged with
\* handled = false.
C39_HookNeverFaults ==
  h_out.done =>
    /\ ~h_out.fault
    /\ Len(h_in.payload) < 2 => (h_out.payload = h_in.payload /\ ~h_out.handled)

\* C39, the index into the payload alone (the parser plays no part)
C39_NoFaultOnShortPayload ==
  (h_out.done /\ Len(h_in.payload) < 3) => ~h_out.fault

\* C39, the half about payloads shorter than 2 bytes, which the code keeps
C39_ShortUnchanged ==
  (h_out.done /\ Len(h_in.payload) < 2) =>
    (~h_out.fault /\ h_out.payload = h_in.payload /\ ~h_out.handled)

(***************************************************************************)
(* Claims about the length field of a transmitted frame (under SpecFrame). *)
(***************************************************************************)
\* C40: the payload_length that transmit writes is the number of payload
\* bytes that follow the header, for every payload handed to it.
C40_LengthFieldIsPayloadLength == f_pc = "sent" => f_field = f_len

\* C40 for the payloads that fit a 16-bit length
C40_FieldExactWhenFits ==
  (f_pc = "sent" /\ f_len <= MaxU16) => f_field = f_len

\* C40 for the payloads that no rewriting touched: unencrypted frames
C40_PlainFramesExact ==
  (f_pc = "sent" /\ ~f_enc /\ ~f_sdr) => f_field = f_len

SupNext ==
  \/ SupUsbInit \/ SupBtCall \/ SupBtOk \/ SupBtErr \/ SupBtSleepDone
  \/ SupUsbEnable \/ SupRestarted \/ SupLoop
  \/ BtPowerUp \/ BtSend \/ BtRead \/ BtNotify \/ BtShutdown \/ BtIoError
  \/ IoWaitTcpStart \/ IoSpawn \/ IoConnectFailed \/ TaskFails
  \/ HuProcSetsSensor \/ IoAbort \/ IoReset \/ IoEvStop \/ IoEvStopFails
  \/ IoNotifyRestart
  \/ StopRequested


Init == SupInit /\ ProxyIdle /\ CodecIdle /\ MonIdle /\ UsbIdle /\ RestIdle

Next == SupNext

Spec == Init /\ [][Next]_vars

SpecProxy == InitProxy /\ [][ProxyNext]_vars

SpecCodec == InitCodec /\ [][CodecNext]_vars

SpecMonitor == InitMonitor /\ [][MonitorNext]_vars

SpecUsb == InitUsb /\ [][UsbNext]_vars

SpecSteady == InitSteady /\ [][SteadyNext]_vars

SpecTls == InitTls /\ [][TlsNext]_vars

SpecSdr == InitSdr /\ [][SdrNext]_vars

SpecEv == InitEv /\ [][EvNext]_vars

SpecBattery == InitBattery /\ [][BatteryNext]_vars

SpecMsg == InitMsg /\ [][MsgNext]_vars

SpecLife == InitLife /\ [][LifeNext]_vars

SpecCross == InitCross /\ [][CrossNext]_vars

SpecGadget == InitGadget /\ [][GadgetNext]_vars

SpecHook == InitHook /\ [][HookNext]_vars

SpecFrame == InitFrame /\ [][FrameNext]_vars

====
